---- MODULE Spec2Model ----
(***************************************************************************)
(* A model of zkbricks/sanctum: the on-chain payment contract              *)
(* (contracts/payment), the off-chain frontier Merkle tree, and the        *)
(* sequencer / verifier services (userland/src/services).                  *)
(*                                                                         *)
(* Byte strings and hashes are terms of a free algebra, so that SHA-256    *)
(* is collision free by construction:                                      *)
(*   <<0, n>>     the 32-byte array [n; 32]                                *)
(*   <<1, x>>     SHA-256 of the single input x                            *)
(*   <<2, l, r>>  SHA-256 of l || r                                        *)
(*   <<3, x>>     the length-prefixed serialization of the byte slice x    *)
(***************************************************************************)
EXTENDS Integers, Sequences, FiniteSets, TLC

VARIABLES
    storage,     \* contract: env.storage().persistent(), a map key -> value
    c_leaves,    \* contract (ghost): the leaves of the successful inserts, in order
    c_nfs,       \* contract (ghost): the nullifiers of the successful record_nullifier calls
    c_last,      \* contract (ghost): the last call, its result and the storage before it
    c_accepted,  \* contract (ghost): how many calls that record a nullifier returned Ok
    tree,        \* FrontierMerkleTreeWithHistory: the struct's fields
    f_leaves,    \* frontier tree (ghost): the leaves of the successful inserts, in order
    f_last,      \* frontier tree (ghost): the last insert, its outcome and the tree before it
    overflow_checks,  \* the services' build profile: TRUE when u32 overflow panics (debug), FALSE when it wraps (release)
    v_history,   \* verifier: AppStateType.merkle_root_history
    v_poisoned,  \* verifier: the poison flag of GlobalAppState.state (std::sync::Mutex)
    v_acc,       \* verifier (ghost): how many bundles were accepted, and the new_root of the latest
    v_last,      \* verifier (ghost): the last request, its outcome and the history before it
    s_state,     \* sequencer: AppStateType (db, num_coins)
    s_lock,      \* sequencer: the request holding GlobalAppState.state, 0 when it is free
    s_poisoned,  \* sequencer: the poison flag of GlobalAppState.state
    s_req,       \* sequencer: the requests in handling, by order of arrival at lock()
    v_order,     \* verifier (ghost): the sequencer's bundles in the order the verifier handled them
    p_last,      \* protocol: the codec call made last, its argument and its result
    z_last       \* circuits: the constraint system evaluated last, its assignment and whether it is satisfied

c_vars == <<storage, c_leaves, c_nfs, c_last, c_accepted>>

f_vars == <<tree, f_leaves, f_last>>

v_vars == <<overflow_checks, v_history, v_poisoned, v_acc, v_last>>

s_vars == <<s_state, s_lock, s_poisoned, s_req, v_order>>

z_vars == <<z_last>>

p_vars == <<p_last>>

vars == <<storage, c_leaves, c_nfs, c_last, c_accepted, tree, f_leaves, f_last,
          overflow_checks, v_history, v_poisoned, v_acc, v_last,
          s_state, s_lock, s_poisoned, s_req, v_order, z_last, p_last>>

----------------------------------------------------------------------------
(* Bounds.  The depth of the tree and the length of the root ring are      *)
(* program constants (15 and 30 in the contract, 8 and 30 off-chain); the  *)
(* model runs them scaled down, so they are bounds of the model.           *)

MERKLE_TREE_LEVELS == 2

ROOT_HISTORY_SIZE == 3

\* the number of insert calls a behaviour makes
MaxInserts == 5

\* leaves are built from the arrays [k; 32] for k in 0..MaxLeafId
MaxLeafId == 2

\* nullifiers are SHA-256 of [k; 32] for k in 0..MaxNullifierId
MaxNullifierId == 1

\* the roots a verifier request names are Root(k) for k in 0..MaxRootId
MaxRootId == 1

\* the number of bundles the verifier accepts in a behaviour
MaxAccepts == 5

\* the number of requests the sequencer receives in a behaviour
MaxRequests == 3

\* the number of payments a behaviour of the contract makes
MaxPayments == 3

\* the length of a note field in bytes (31 in the program)
NoteFieldLen == 2

\* the length of the PRF key, of [0u8; 32] and of the PRF output (32 in the program)
PRF_LEN == 3

\* the limbs of an element of the outer scalar field (6 in the program) and
\* the bytes of a limb (8 in the program): an element has more bytes than a
\* PRF output or a note field
N_LIMBS == 2

LIMB_BYTES == 2

\* the bytes of a serialized field element in the codec (48 in the program)
CodecBytes == 2

\* the longest public-input vector and the longest authentication path the
\* codec is run on
MaxPublicInputs == 2

\* the positions of the fields of a note
ENTROPY == 0

OWNER == 1

ASSET_ID == 2

AMOUNT == 3

RHO == 4

\* std::cmp::min
Min(a, b) == IF a < b THEN a ELSE b

----------------------------------------------------------------------------
(* Bytes and hashes *)

Bytes32(n) == <<0, n>>

Sha256(x) == <<1, x>>

\* SanctumContract::sha256hash: SHA-256 of left || right
sha256hash(left, right) == <<2, left, right>>

\* the contract's table of empty-subtree hashes
RECURSIVE zeros(_)
zeros(i) ==
    IF i = 0 THEN Sha256(Bytes32(0))
    ELSE sha256hash(zeros(i - 1), zeros(i - 1))

Pow2(n) == 2 ^ n

\* the values a client passes as leaf and as nullifier (test.rs: sha256 of [k; 32])
Digests == { Sha256(Bytes32(k)) : k \in 0..MaxLeafId }

NullifierDigests == { Sha256(Bytes32(k)) : k \in 0..MaxNullifierId }

----------------------------------------------------------------------------
(* Contract storage: DataKey and the persistent map *)

KInitialized == <<"Initialized">>
KFilledSubtree(i) == <<"FilledSubtree", i>>
KRoots(i) == <<"Roots", i>>
KNextIndex == <<"NextIndex">>
KCurrentRootIndex == <<"CurrentRootIndex">>
KNullifier(nf) == <<"Nullifier", nf>>

\* Val::VOID
VOID == <<>>

Has(st, k) == k \in DOMAIN st

Put(st, k, v) == [x \in (DOMAIN st) \cup {k} |-> IF x = k THEN v ELSE st[x]]

\* get(&DataKey::Initialized).unwrap_or(false)
IsInitialized(st) == IF Has(st, KInitialized) THEN st[KInitialized] ELSE FALSE

\* SanctumError: the u32 code of each variant (0 for Ok)
ErrorCode(res) ==
    CASE res = "ContractUnititialized" -> 1
      [] res = "IllegalContractCall" -> 2
      [] res = "DuplicateNullifier" -> 3
      [] OTHER -> 0

NoCall == [op |-> "none", arg |-> VOID, res |-> "none", pre |-> <<>>, pre_nfs |-> {}]

Call(op, arg, res) ==
    [op |-> op, arg |-> arg, res |-> res, pre |-> storage, pre_nfs |-> c_nfs]

----------------------------------------------------------------------------
(* SanctumContract::initialize *)

RECURSIVE InitFilledSubtrees(_, _)
InitFilledSubtrees(st, i) ==
    IF i = MERKLE_TREE_LEVELS THEN st
    ELSE InitFilledSubtrees(Put(st, KFilledSubtree(i), zeros(i)), i + 1)

InitializedStorage(st) ==
    LET s1 == InitFilledSubtrees(st, 0)
        s2 == Put(s1, KRoots(0), zeros(MERKLE_TREE_LEVELS - 1))
        s3 == Put(s2, KNextIndex, 0)
        s4 == Put(s3, KCurrentRootIndex, 0)
    IN  Put(s4, KInitialized, TRUE)

RECURSIVE ApplyWrites(_, _)
ApplyWrites(st, writes) ==
    IF writes = <<>> THEN st
    ELSE ApplyWrites(Put(st, Head(writes)[1], Head(writes)[2]), Tail(writes))

\* an initialize that marks the contract initialized before it writes the tree
InitializeWritesFlagFirst ==
    <<<<KInitialized, TRUE>>>>
        \o [i \in 1..MERKLE_TREE_LEVELS |-> <<KFilledSubtree(i - 1), zeros(i - 1)>>]
        \o << <<KRoots(0), zeros(MERKLE_TREE_LEVELS - 1)>>,
               <<KNextIndex, 0>>,
               <<KCurrentRootIndex, 0>> >>

\* the persistent().set calls of a successful initialize, in program order
InitializeWrites ==
    [i \in 1..MERKLE_TREE_LEVELS |-> <<KFilledSubtree(i - 1), zeros(i - 1)>>]
        \o << <<KRoots(0), zeros(MERKLE_TREE_LEVELS - 1)>>,
               <<KNextIndex, 0>>,
               <<KCurrentRootIndex, 0>>,
               <<KInitialized, TRUE>> >>

InitializeUnguarded ==
    /\ storage' = InitializedStorage(storage)
    /\ c_last' = Call("initialize", VOID, "Ok")
    /\ UNCHANGED <<c_leaves, c_nfs, c_accepted>>

Initialize ==
    /\ IF IsInitialized(storage)
       THEN /\ c_last' = Call("initialize", VOID, "IllegalContractCall")
            /\ UNCHANGED storage
       ELSE /\ storage' = InitializedStorage(storage)
            /\ c_last' = [op |-> "initialize", arg |-> VOID, res |-> "Ok",
                           pre |-> storage, pre_nfs |-> c_nfs,
                           writes |-> InitializeWrites]
    /\ UNCHANGED <<c_leaves, c_nfs, c_accepted>>

----------------------------------------------------------------------------
(* SanctumContract::insert *)

\* the value insert stores in FilledSubtree(i) at a level where the index is even
FilledSubtreeWrite(i, current_level_hash) == zeros(i)

\* the loop over the levels: the storage and the hash after level i .. levels-1
RECURSIVE InsertLoop(_, _, _, _)
InsertLoop(st, i, current_index, current_level_hash) ==
    IF i = MERKLE_TREE_LEVELS
    THEN [st |-> st, hash |-> current_level_hash]
    ELSE IF current_index % 2 = 0
         THEN InsertLoop(
                  Put(st, KFilledSubtree(i), FilledSubtreeWrite(i, current_level_hash)),
                  i + 1, current_index \div 2,
                  sha256hash(current_level_hash, zeros(i)))
         ELSE InsertLoop(
                  st, i + 1, current_index \div 2,
                  sha256hash(st[KFilledSubtree(i)], current_level_hash))

\* an insert that stores the new root in the slot of the current root
InsertedStorageOldSlot(st, leaf) ==
    LET next_index == st[KNextIndex]
        r == InsertLoop(st, 0, next_index, leaf)
        new_root_index == (r.st[KCurrentRootIndex] + 1) % ROOT_HISTORY_SIZE
        s1 == Put(r.st, KRoots(r.st[KCurrentRootIndex]), r.hash)
        s2 == Put(s1, KCurrentRootIndex, new_root_index)
    IN  Put(s2, KNextIndex, next_index + 1)

\* an insert that advances the ring index and does not store the new root
InsertedStorageRootNotStored(st, leaf) ==
    LET next_index == st[KNextIndex]
        r == InsertLoop(st, 0, next_index, leaf)
        new_root_index == (r.st[KCurrentRootIndex] + 1) % ROOT_HISTORY_SIZE
        s1 == Put(r.st, KCurrentRootIndex, new_root_index)
    IN  Put(s1, KNextIndex, next_index + 1)

InsertedStorage(st, leaf) ==
    LET next_index == st[KNextIndex]
        r == InsertLoop(st, 0, next_index, leaf)
        new_root_index == (r.st[KCurrentRootIndex] + 1) % ROOT_HISTORY_SIZE
        s1 == Put(r.st, KCurrentRootIndex, new_root_index)
        s2 == Put(s1, KRoots(new_root_index), r.hash)
    IN  Put(s2, KNextIndex, next_index + 1)

Insert(leaf) ==
    /\ Len(c_leaves) < MaxInserts
    /\ IF ~IsInitialized(storage)
       THEN /\ c_last' = Call("insert", leaf, "ContractUnititialized")
            /\ UNCHANGED <<storage, c_leaves>>
       ELSE /\ storage' = InsertedStorage(storage, leaf)
            /\ c_leaves' = Append(c_leaves, leaf)
            /\ c_last' = Call("insert", leaf, "Ok")
    /\ UNCHANGED <<c_nfs, c_accepted>>

----------------------------------------------------------------------------
(* SanctumContract::record_nullifier *)

NullifierExistsNever(st, nullifier) == FALSE

\* env.storage().persistent().has(&DataKey::Nullifier(nullifier))
NullifierExists(st, nullifier) == Has(st, KNullifier(nullifier))

RecordNullifierUnguarded(nullifier) ==
    IF NullifierExists(storage, nullifier)
    THEN /\ c_last' = Call("record_nullifier", nullifier, "DuplicateNullifier")
         /\ UNCHANGED <<storage, c_leaves, c_nfs, c_accepted>>
    ELSE /\ storage' = Put(storage, KNullifier(nullifier), VOID)
         /\ c_nfs' = c_nfs \cup {nullifier}
         /\ c_accepted' = c_accepted + 1
         /\ c_last' = Call("record_nullifier", nullifier, "Ok")
         /\ UNCHANGED c_leaves

RecordNullifier(nullifier) ==
    IF ~IsInitialized(storage)
    THEN /\ c_last' = Call("record_nullifier", nullifier, "ContractUnititialized")
         /\ UNCHANGED <<storage, c_leaves, c_nfs, c_accepted>>
    ELSE IF NullifierExists(storage, nullifier)
    THEN /\ c_last' = Call("record_nullifier", nullifier, "DuplicateNullifier")
         /\ UNCHANGED <<storage, c_leaves, c_nfs, c_accepted>>
    ELSE /\ storage' = Put(storage, KNullifier(nullifier), VOID)
         /\ c_nfs' = c_nfs \cup {nullifier}
         /\ c_accepted' = c_accepted + 1
         /\ c_last' = Call("record_nullifier", nullifier, "Ok")
         /\ UNCHANGED c_leaves

----------------------------------------------------------------------------
(* SanctumContract::payment(root, cm_out, nf).  The function is called by   *)
(* test.rs but its body is not in lib.rs; it is modelled from the design    *)
(* document: preconditions initialized, nf not recorded, root in the ring;  *)
(* then cm_out is inserted and nf is recorded.                              *)

\* the roots held in the ring
RingRoots(st) ==
    { st[KRoots(i)] : i \in { j \in 0..(ROOT_HISTORY_SIZE - 1) : Has(st, KRoots(j)) } }

ContractIsKnownRootAlways(st, root) == TRUE

ContractIsKnownRoot(st, root) == root \in RingRoots(st)

\* the error codes of payment: those of SanctumError, and UnknownRoot = 4,
\* which the design document lists and the enum of lib.rs does not have
PaymentErrorCode(res) == IF res = "UnknownRoot" THEN 4 ELSE ErrorCode(res)

\* a root no tree of the model has: SHA-256 of [255; 32]
UnknownRootValue == Sha256(Bytes32(255))

\* the root payment returns to its caller: the one its insert computed
PaymentReturn(st, cm_out) == InsertLoop(st, 0, st[KNextIndex], cm_out).hash

\* the roots a caller that chains payments declares: the empty-tree root, and
\* the root the payment before returned
ChainRoots ==
    {zeros(MERKLE_TREE_LEVELS - 1)}
        \cup (IF c_last.op = "payment" /\ c_last.res = "Ok" THEN {c_last.ret} ELSE {})

Payment(root, cm_out, nf) ==
    LET arg == [root |-> root, cm_out |-> cm_out, nf |-> nf]
    IN  /\ Len(c_leaves) < MaxPayments
        /\ IF ~IsInitialized(storage)
           THEN /\ c_last' = Call("payment", arg, "ContractUnititialized")
                /\ UNCHANGED <<storage, c_leaves, c_nfs, c_accepted>>
           ELSE IF NullifierExists(storage, nf)
           THEN /\ c_last' = Call("payment", arg, "DuplicateNullifier")
                /\ UNCHANGED <<storage, c_leaves, c_nfs, c_accepted>>
           ELSE IF ~ContractIsKnownRoot(storage, root)
           THEN /\ c_last' = Call("payment", arg, "UnknownRoot")
                /\ UNCHANGED <<storage, c_leaves, c_nfs, c_accepted>>
           ELSE /\ storage' = Put(InsertedStorage(storage, cm_out), KNullifier(nf), VOID)
                /\ c_leaves' = Append(c_leaves, cm_out)
                /\ c_nfs' = c_nfs \cup {nf}
                /\ c_accepted' = c_accepted + 1
                /\ c_last' = [op |-> "payment", arg |-> arg, res |-> "Ok",
                               pre |-> storage, pre_nfs |-> c_nfs,
                               ret |-> PaymentReturn(storage, cm_out)]

----------------------------------------------------------------------------
(* The contract as a state machine: a freshly deployed contract has an     *)
(* empty storage.                                                          *)

ContractInit ==
    /\ storage = <<>>
    /\ c_leaves = <<>>
    /\ c_nfs = {}
    /\ c_last = NoCall
    /\ c_accepted = 0

ContractNext ==
    \/ Initialize /\ UNCHANGED <<p_vars, z_vars, f_vars, v_vars, s_vars>>
    \/ \E leaf \in Digests : Insert(leaf) /\ UNCHANGED <<p_vars, z_vars, f_vars, v_vars, s_vars>>
    \/ \E nullifier \in NullifierDigests :
          RecordNullifier(nullifier) /\ UNCHANGED <<p_vars, z_vars, f_vars, v_vars, s_vars>>

\* the contract driven through payment: initialize, payment with a root of
\* the ring, a root of a chain or an unknown one, and record_nullifier
PaymentNext ==
    \/ Initialize /\ UNCHANGED <<p_vars, z_vars, f_vars, v_vars, s_vars>>
    \/ \E nullifier \in NullifierDigests :
          RecordNullifier(nullifier) /\ UNCHANGED <<p_vars, z_vars, f_vars, v_vars, s_vars>>
    \/ \E root \in RingRoots(storage) \cup ChainRoots \cup {UnknownRootValue},
          cm_out \in Digests, nf \in NullifierDigests :
          Payment(root, cm_out, nf) /\ UNCHANGED <<p_vars, z_vars, f_vars, v_vars, s_vars>>

----------------------------------------------------------------------------
(* FrontierMerkleTreeWithHistory (userland/src/services/sequencer)         *)

\* leaf.serialize_uncompressed: the byte slice with its length in front
SerializeUncompressed(leaf) == <<3, leaf>>

compute_leaf_hash(leaf) == Sha256(SerializeUncompressed(leaf))

\* <CompressH as TwoToOneCRHScheme>::compress: SHA-256 of left || right
compress(left, right) == sha256hash(left, right)

RECURSIVE f_zeros(_)
f_zeros(level) ==
    IF level = 0 THEN compute_leaf_hash(Bytes32(0))
    ELSE compress(f_zeros(level - 1), f_zeros(level - 1))

\* the byte vectors a caller inserts
LeafValues == { Bytes32(k) : k \in 0..MaxLeafId }

\* FrontierMerkleTreeWithHistory::new (levels > 0 and levels < 32 are asserted)
FrontierNew(levels, root_history_size) ==
    [ levels |-> levels,
      root_history_size |-> root_history_size,
      filled_subtrees |-> [i \in 0..(levels - 1) |-> f_zeros(i)],
      historical_roots |-> [i \in {0} |-> f_zeros(levels - 1)],
      current_root_index |-> 0,
      next_index |-> 0 ]

FrontierFilledWriteZeros(i, current_level_hash) == f_zeros(i)

\* the value insert stores in filled_subtrees[i] at a level where the index is even
FrontierFilledWrite(i, current_level_hash) == current_level_hash

RECURSIVE FrontierLoop(_, _, _, _, _)
FrontierLoop(levels, filled, i, current_index, current_level_hash) ==
    IF i = levels
    THEN [filled |-> filled, hash |-> current_level_hash]
    ELSE IF current_index % 2 = 0
         THEN FrontierLoop(
                  levels,
                  Put(filled, i, FrontierFilledWrite(i, current_level_hash)),
                  i + 1, current_index \div 2,
                  compress(current_level_hash, f_zeros(i)))
         ELSE FrontierLoop(
                  levels, filled, i + 1, current_index \div 2,
                  compress(filled[i], current_level_hash))

FrontierHasRoomAlways(t) == TRUE

\* the assertion at the head of insert
FrontierHasRoom(t) == t.next_index < Pow2(t.levels)

FrontierInsertedSameSlot(t, leaf) ==
    LET r == FrontierLoop(t.levels, t.filled_subtrees, 0, t.next_index,
                          compute_leaf_hash(leaf))
    IN  [ t EXCEPT !.filled_subtrees = r.filled,
                   !.historical_roots = Put(t.historical_roots, t.current_root_index, r.hash),
                   !.next_index = t.next_index + 1 ]

FrontierInserted(t, leaf) ==
    LET r == FrontierLoop(t.levels, t.filled_subtrees, 0, t.next_index,
                          compute_leaf_hash(leaf))
        new_root_index == (t.current_root_index + 1) % t.root_history_size
    IN  [ t EXCEPT !.filled_subtrees = r.filled,
                   !.current_root_index = new_root_index,
                   !.historical_roots = Put(t.historical_roots, new_root_index, r.hash),
                   !.next_index = t.next_index + 1 ]

FrontierInsert(leaf) ==
    /\ tree.next_index < MaxInserts
    /\ IF FrontierHasRoom(tree)
       THEN /\ tree' = FrontierInserted(tree, leaf)
            /\ f_leaves' = Append(f_leaves, leaf)
            /\ f_last' = [op |-> "insert", arg |-> leaf, res |-> "Ok", pre |-> tree]
       ELSE /\ f_last' = [op |-> "insert", arg |-> leaf, res |-> "panic", pre |-> tree]
            /\ UNCHANGED <<tree, f_leaves>>

\* FrontierMerkleTreeWithHistory::get_latest_root
FrontierLatestRoot(t) == t.historical_roots[t.current_root_index]

\* the loop of FrontierMerkleTreeWithHistory::is_known_root from index i on:
\* "true", "false", or "panic" when historical_roots.get(&i).unwrap() finds
\* no entry
RECURSIVE FrontierKnownRootScan(_, _, _)
FrontierKnownRootScan(t, root, i) ==
    IF ~Has(t.historical_roots, i) THEN "panic"
    ELSE IF root = t.historical_roots[i] THEN "true"
    ELSE LET j == (IF i = 0 THEN t.root_history_size ELSE i) - 1
         IN  IF j = t.current_root_index THEN "false"
             ELSE FrontierKnownRootScan(t, root, j)

\* FrontierMerkleTreeWithHistory::is_known_root
FrontierIsKnownRoot(t, root) == FrontierKnownRootScan(t, root, t.current_root_index)

\* the roots the ring of the tree holds
FrontierStoredRoots(t) == { t.historical_roots[i] : i \in DOMAIN t.historical_roots }

\* the roots a caller asks about: the stored ones and the root of the empty
\* tree of depth levels (stored only after a first insert of the empty leaf)
FrontierRootInputs(t) == FrontierStoredRoots(t) \cup {f_zeros(t.levels)}

\* a call of is_known_root(root): it reads the tree and changes nothing
FrontierIsKnownRootCall(root) ==
    /\ f_last' = [ op |-> "is_known_root", arg |-> root,
                   res |-> FrontierIsKnownRoot(tree, root), pre |-> tree ]
    /\ UNCHANGED <<tree, f_leaves>>

FrontierInit ==
    /\ tree = FrontierNew(MERKLE_TREE_LEVELS, ROOT_HISTORY_SIZE)
    /\ f_leaves = <<>>
    /\ f_last = [op |-> "new", arg |-> VOID, res |-> "Ok", pre |-> <<>>]

FrontierNext ==
    \/ \E leaf \in LeafValues :
          FrontierInsert(leaf) /\ UNCHANGED <<p_vars, z_vars, c_vars, v_vars, s_vars>>
    \/ \E root \in FrontierRootInputs(tree) :
          FrontierIsKnownRootCall(root) /\ UNCHANGED <<p_vars, z_vars, c_vars, v_vars, s_vars>>

----------------------------------------------------------------------------
(* Verifier (userland/src/services/verifier/main.rs)                       *)

\* u32::MAX, the value 0u32 - 1 wraps to when overflow checks are off.  It
\* stands for 4294967295, which TLC's integers cannot hold; the model uses it
\* only as a key of the ring, where every key is below root_history_size.
U32_MAX == 2147483647

\* a Merkle root as the services see it: a commitment to the record vector
\* (base58 of its coordinates); binding, so a term over the records
Root(records) == <<4, records>>

\* a note commitment (a G1 point), and the commitment of the dummy utxo
Commitment(k) == <<5, k>>

DummyCommitment == <<6>>

\* the roots a request to the verifier may name: roots of some record vectors
RootValues == { Root(<<Commitment(k)>>) : k \in 0..MaxRootId }

\* the outcome of Groth16 verification of a proof against its public inputs,
\* or "malformed" when the envelope does not decode
ProofStatus == {"valid", "invalid", "malformed"}

\* MerkleRootHistory::new
MerkleRootHistoryNew(root_history_size) ==
    [ root_history_size |-> root_history_size,
      historical_roots |-> <<>>,
      next_root_index |-> 0 ]

\* MerkleRootHistory::insert
HistoryInsert(h, root) ==
    [ h EXCEPT !.historical_roots = Put(@, h.next_root_index, root),
               !.next_root_index = (h.next_root_index + 1) % h.root_history_size ]

\* self.next_root_index - 1 on u32 panics in a build with overflow checks
SubtractOverflows(n) == overflow_checks /\ n = 0

\* self.next_root_index - 1 on u32 in a build without overflow checks
WrappingSubOne(n) == IF n = 0 THEN U32_MAX ELSE n - 1

\* the loop of MerkleRootHistory::is_known_root from index i on
RECURSIVE KnownRootScan(_, _, _, _)
KnownRootScan(h, root, i, start_index) ==
    IF ~Has(h.historical_roots, i) THEN FALSE
    ELSE IF h.historical_roots[i] = root THEN TRUE
    ELSE LET j == (IF i = 0 THEN h.root_history_size ELSE i) - 1
         IN  IF j = start_index THEN FALSE
             ELSE KnownRootScan(h, root, j, start_index)

IsKnownRootAlways(h, root) == TRUE

\* MerkleRootHistory::is_known_root (when the subtraction does not panic)
IsKnownRoot(h, root) ==
    LET start_index == WrappingSubOne(h.next_root_index)
    IN  KnownRootScan(h, root, start_index, start_index)

\* MerkleRootHistory::get_latest_root (when the subtraction does not panic):
\* an Option, <<root>> for Some(root) and <<>> for None
GetLatestRoot(h) ==
    LET last_index == WrappingSubOne(h.next_root_index)
    IN  IF Has(h.historical_roots, last_index)
        THEN <<h.historical_roots[last_index]>>
        ELSE <<>>

\* what a call of is_known_root gives its caller
IsKnownRootResult(h, root) ==
    IF SubtractOverflows(h.next_root_index) THEN "panic"
    ELSE IF IsKnownRoot(h, root) THEN "true" ELSE "false"

\* what a call of get_latest_root gives its caller
GetLatestRootResult(h) ==
    IF SubtractOverflows(h.next_root_index) THEN [res |-> "panic", value |-> <<>>]
    ELSE [res |-> "returned", value |-> GetLatestRoot(h)]

Panic(stage, h) == [res |-> "panic", stage |-> stage, history |-> h]

UpdateMerkleRootInsertFirst(h, mu) ==
    LET inserted == HistoryInsert(h, mu.new_root)
    IN  IF SubtractOverflows(h.next_root_index) THEN Panic("overflow", h)
        ELSE IF GetLatestRoot(h) # <<>> /\ GetLatestRoot(h)[1] # mu.old_root
        THEN Panic("root_chain", inserted)
        ELSE IF mu.status = "malformed" THEN Panic("mu_decode", inserted)
        ELSE IF mu.status = "invalid" THEN Panic("mu_verify", inserted)
        ELSE [res |-> "OK", stage |-> "done", history |-> inserted]

\* update_merkle_root: the history it leaves and whether it panicked
UpdateMerkleRoot(h, mu) ==
    IF SubtractOverflows(h.next_root_index) THEN Panic("overflow", h)
    ELSE IF GetLatestRoot(h) # <<>> /\ GetLatestRoot(h)[1] # mu.old_root
    THEN Panic("root_chain", h)
    ELSE IF mu.status = "malformed" THEN Panic("mu_decode", h)
    ELSE IF mu.status = "invalid" THEN Panic("mu_verify", h)
    ELSE [res |-> "OK", stage |-> "done", history |-> HistoryInsert(h, mu.new_root)]

\* verifier process_onramp_tx, from lock() to the return
VerifierOnramp(h, poisoned, tx, mu) ==
    IF poisoned THEN Panic("lock", h)
    ELSE IF tx.status = "malformed" THEN Panic("tx_decode", h)
    ELSE IF tx.status = "invalid" THEN Panic("tx_verify", h)
    ELSE UpdateMerkleRoot(h, mu)

\* verifier process_payment_tx, from lock() to the return
VerifierPayment(h, poisoned, tx, mu) ==
    IF poisoned THEN Panic("lock", h)
    ELSE IF SubtractOverflows(h.next_root_index) THEN Panic("overflow", h)
    ELSE IF ~IsKnownRoot(h, tx.root) THEN Panic("known_root", h)
    ELSE IF tx.status = "malformed" THEN Panic("tx_decode", h)
    ELSE IF tx.status = "invalid" THEN Panic("tx_verify", h)
    ELSE UpdateMerkleRoot(h, mu)

VerifierHandle(kind, tx, mu) ==
    IF kind = "onramp"
    THEN VerifierOnramp(v_history, v_poisoned, tx, mu)
    ELSE VerifierPayment(v_history, v_poisoned, tx, mu)

\* a panic while the MutexGuard is alive poisons the mutex; a panic of
\* lock().unwrap() on a poisoned mutex leaves it poisoned
VerifierApply(kind, tx, mu) ==
    LET out == VerifierHandle(kind, tx, mu)
    IN  /\ v_history' = out.history
        /\ v_poisoned' = (v_poisoned \/ out.res = "panic")
        /\ v_acc' = IF out.res = "OK"
                    THEN [count |-> v_acc.count + 1, latest |-> <<mu.new_root>>]
                    ELSE v_acc
        /\ v_last' = [ kind |-> kind, tx_status |-> tx.status, root |-> tx.root,
                       commitment |-> tx.commitment,
                       mu_status |-> mu.status, leaf_value |-> mu.leaf_value,
                       old_root |-> mu.old_root, new_root |-> mu.new_root,
                       res |-> out.res, stage |-> out.stage,
                       pre |-> v_history, pre_acc |-> v_acc,
                       pre_poisoned |-> v_poisoned ]
        /\ UNCHANGED overflow_checks

\* the public inputs COMMITMENT and LEAF_VALUE of a posted bundle: no
\* handler reads either, so only whether they agree distinguishes bundles;
\* the commitment is Commitment(1) and the leaf value is it or another one
BundleCommitment == Commitment(1)

BundleLeafValues == { Commitment(1), Commitment(2) }

\* POST /onramp with any bundle
VerifierOnrampRequest ==
    /\ v_acc.count < MaxAccepts
    /\ \E status, mu_status \in ProofStatus, old_root, new_root \in RootValues,
          leaf_value \in BundleLeafValues :
          VerifierApply("onramp",
                        [status |-> status, root |-> VOID, commitment |-> BundleCommitment],
                        [status |-> mu_status, leaf_value |-> leaf_value,
                         old_root |-> old_root, new_root |-> new_root])

\* POST /payment with any bundle
VerifierPaymentRequest ==
    /\ v_acc.count < MaxAccepts
    /\ \E status, mu_status \in ProofStatus, root, old_root, new_root \in RootValues,
          leaf_value \in BundleLeafValues :
          VerifierApply("payment",
                        [status |-> status, root |-> root, commitment |-> BundleCommitment],
                        [status |-> mu_status, leaf_value |-> leaf_value,
                         old_root |-> old_root, new_root |-> new_root])

VerifierInit ==
    /\ overflow_checks \in BOOLEAN
    /\ v_history = MerkleRootHistoryNew(ROOT_HISTORY_SIZE)
    /\ v_poisoned = FALSE
    /\ v_acc = [count |-> 0, latest |-> <<>>]
    /\ v_last = [ kind |-> "none", tx_status |-> "none", root |-> VOID,
                  commitment |-> VOID,
                  mu_status |-> "none", leaf_value |-> VOID, old_root |-> VOID,
                  new_root |-> VOID, res |-> "none", stage |-> "none",
                  pre |-> MerkleRootHistoryNew(ROOT_HISTORY_SIZE),
                  pre_acc |-> [count |-> 0, latest |-> <<>>],
                  pre_poisoned |-> FALSE ]

VerifierNext ==
    \/ VerifierOnrampRequest /\ UNCHANGED <<p_vars, z_vars, c_vars, f_vars, s_vars>>
    \/ VerifierPaymentRequest /\ UNCHANGED <<p_vars, z_vars, c_vars, f_vars, s_vars>>

----------------------------------------------------------------------------
(* Sequencer (userland/src/services/sequencer/main.rs) and its pipeline    *)
(* to the verifier.  A handler runs lock() .. drop(state) without an await, *)
(* then awaits the POST to the verifier.                                   *)

\* initialize_state: a db of 2^levels dummy records, no coins
SequencerNew ==
    [ db |-> [i \in 1..Pow2(MERKLE_TREE_LEVELS) |-> DummyCommitment],
      num_coins |-> 0 ]

\* db.commitment()
DbCommitment(db) == Root(db)

\* an add_coin_to_state that assembles the old opening after db.update
AddCoinToStateOldProofLate(st, com) ==
    LET leaf_index == st.num_coins
        db2 == [st.db EXCEPT ![leaf_index + 1] = com]
    IN  [ state |-> [db |-> db2, num_coins |-> st.num_coins + 1],
          proof |-> [ status |-> "valid",
                      leaf_index |-> leaf_index,
                      leaf_value |-> com,
                      old_root |-> DbCommitment(db2),
                      new_root |-> DbCommitment(db2) ] ]

\* add_coin_to_state: the state it leaves and the Merkle-update proof it
\* returns (generate_groth_proof on the two openings: a valid proof)
AddCoinToState(st, com) ==
    LET leaf_index == st.num_coins
        db2 == [st.db EXCEPT ![leaf_index + 1] = com]
    IN  [ state |-> [db |-> db2, num_coins |-> st.num_coins + 1],
          proof |-> [ status |-> "valid",
                      leaf_index |-> leaf_index,
                      leaf_value |-> com,
                      old_root |-> DbCommitment(st.db),
                      new_root |-> DbCommitment(db2) ] ]

NoRequest ==
    [ pc |-> "none", kind |-> "none", tx |-> VOID, mu |-> VOID,
      response |-> "none", result |-> "none" ]

\* the requests that have reached lock()
Started == { r \in 1..MaxRequests : s_req[r].pc # "none" }

\* a lock() that does not wait for the holder of the guard
SeqLockNoWait(r, kind, status) ==
    /\ r = Cardinality(Started) + 1
    /\ r <= MaxRequests
    /\ LET tx == [ status |-> status,
                   root |-> IF kind = "payment"
                            THEN DbCommitment(s_state.db) ELSE VOID,
                   commitment |-> Commitment(r) ]
       IN  IF s_poisoned
           THEN /\ s_req' = [s_req EXCEPT ![r] =
                     [NoRequest EXCEPT !.pc = "done", !.kind = kind, !.tx = tx,
                                       !.result = "panic"]]
                /\ UNCHANGED s_lock
           ELSE /\ s_req' = [s_req EXCEPT ![r] =
                     [NoRequest EXCEPT !.pc = "locked", !.kind = kind, !.tx = tx]]
                /\ s_lock' = r
    /\ UNCHANGED <<s_state, s_poisoned, v_order>>

\* let mut state = global_state.state.lock().unwrap() of request r, the next
\* to arrive: an onramp or a payment with proof status `status`, whose output
\* commitment is Commitment(r); a payment declares the root the db has now
SeqLock(r, kind, status) ==
    /\ r = Cardinality(Started) + 1
    /\ r <= MaxRequests
    /\ s_lock = 0
    /\ LET tx == [ status |-> status,
                   root |-> IF kind = "payment"
                            THEN DbCommitment(s_state.db) ELSE VOID,
                   commitment |-> Commitment(r) ]
       IN  IF s_poisoned
           THEN /\ s_req' = [s_req EXCEPT ![r] =
                     [NoRequest EXCEPT !.pc = "done", !.kind = kind, !.tx = tx,
                                       !.result = "panic"]]
                /\ UNCHANGED s_lock
           ELSE /\ s_req' = [s_req EXCEPT ![r] =
                     [NoRequest EXCEPT !.pc = "locked", !.kind = kind, !.tx = tx]]
                /\ s_lock' = r
    /\ UNCHANGED <<s_state, s_poisoned, v_order>>

\* lock().unwrap() of request r, the next to arrive, which submits again the
\* body (proof and public inputs) of the earlier request q
SeqLockResubmit(r, q) ==
    /\ r = Cardinality(Started) + 1
    /\ r <= MaxRequests
    /\ q \in Started
    /\ s_lock = 0
    /\ IF s_poisoned
       THEN /\ s_req' = [s_req EXCEPT ![r] =
                 [NoRequest EXCEPT !.pc = "done", !.kind = s_req[q].kind,
                                   !.tx = s_req[q].tx, !.result = "panic"]]
            /\ UNCHANGED s_lock
       ELSE /\ s_req' = [s_req EXCEPT ![r] =
                 [NoRequest EXCEPT !.pc = "locked", !.kind = s_req[q].kind,
                                   !.tx = s_req[q].tx]]
            /\ s_lock' = r
    /\ UNCHANGED <<s_state, s_poisoned, v_order>>

SeqCriticalKeepsLock(r) ==
    /\ s_req[r].pc = "locked"
    /\ s_lock = r
    /\ UNCHANGED s_lock
    /\ IF s_req[r].tx.status # "valid" \/ s_state.num_coins >= Pow2(MERKLE_TREE_LEVELS)
       THEN /\ s_poisoned' = TRUE
            /\ s_req' = [s_req EXCEPT ![r].pc = "done", ![r].result = "panic"]
            /\ UNCHANGED s_state
       ELSE LET added == AddCoinToState(s_state, s_req[r].tx.commitment)
            IN  /\ s_state' = added.state
                /\ s_req' = [s_req EXCEPT ![r].pc = "forward", ![r].mu = added.proof]
                /\ UNCHANGED s_poisoned
    /\ UNCHANGED v_order

\* the critical section of process_onramp_tx / process_payment_tx: verify
\* the proof, add the coin, drop the lock.  A failed assert or unwrap unwinds
\* through the guard and poisons the mutex.
SeqCritical(r) ==
    /\ s_req[r].pc = "locked"
    /\ s_lock = r
    /\ s_lock' = 0
    /\ IF s_req[r].tx.status # "valid" \/ s_state.num_coins >= Pow2(MERKLE_TREE_LEVELS)
       THEN /\ s_poisoned' = TRUE
            /\ s_req' = [s_req EXCEPT ![r].pc = "done", ![r].result = "panic"]
            /\ UNCHANGED s_state
       ELSE LET added == AddCoinToState(s_state, s_req[r].tx.commitment)
            IN  /\ s_state' = added.state
                /\ s_req' = [s_req EXCEPT ![r].pc = "forward", ![r].mu = added.proof]
                /\ UNCHANGED s_poisoned
    /\ UNCHANGED v_order

\* The critical section statement by statement, for the interleavings the
\* lock has to exclude.  A request between lock() and drop(state) holds the
\* guard; mu is the bundle add_coin_to_state is building.

\* the proof is verified, then let leaf_index = (*state).num_coins and the
\* old opening is assembled; a failed assert poisons the mutex
SeqReadIndex(r) ==
    /\ s_req[r].pc = "locked"
    /\ IF s_req[r].tx.status # "valid"
       THEN /\ s_poisoned' = TRUE
            /\ s_lock' = IF s_lock = r THEN 0 ELSE s_lock
            /\ s_req' = [s_req EXCEPT ![r].pc = "done", ![r].result = "panic"]
       ELSE /\ s_req' = [s_req EXCEPT
                  ![r].pc = "read",
                  ![r].mu = [ status |-> "valid",
                              leaf_index |-> s_state.num_coins,
                              leaf_value |-> s_req[r].tx.commitment,
                              old_root |-> DbCommitment(s_state.db),
                              new_root |-> VOID ]]
            /\ UNCHANGED <<s_lock, s_poisoned>>
    /\ UNCHANGED <<s_state, v_order>>

\* (*state).db.update(leaf_index as usize, &com), fatal out of range
SeqUpdateDb(r) ==
    /\ s_req[r].pc = "read"
    /\ IF s_req[r].mu.leaf_index >= Pow2(MERKLE_TREE_LEVELS)
       THEN /\ s_poisoned' = TRUE
            /\ s_lock' = IF s_lock = r THEN 0 ELSE s_lock
            /\ s_req' = [s_req EXCEPT ![r].pc = "done", ![r].result = "panic",
                                      ![r].mu = VOID]
            /\ UNCHANGED s_state
       ELSE /\ s_state' = [s_state EXCEPT
                  !.db[s_req[r].mu.leaf_index + 1] = s_req[r].tx.commitment]
            /\ s_req' = [s_req EXCEPT ![r].pc = "updated"]
            /\ UNCHANGED <<s_lock, s_poisoned>>
    /\ UNCHANGED v_order

\* (*state).num_coins += 1, the new opening, the Merkle-update proof, and
\* drop(state)
SeqIncrement(r) ==
    /\ s_req[r].pc = "updated"
    /\ s_state' = [s_state EXCEPT !.num_coins = s_state.num_coins + 1]
    /\ s_req' = [s_req EXCEPT ![r].pc = "forward",
                              ![r].mu.new_root = DbCommitment(s_state.db)]
    /\ s_lock' = IF s_lock = r THEN 0 ELSE s_lock
    /\ UNCHANGED <<s_poisoned, v_order>>

\* the verifier handles the bundle of request r: the POST of any request
\* that has left its critical section may arrive next
VerifierReceive(r) ==
    /\ s_req[r].pc = "forward"
    /\ VerifierApply(s_req[r].kind, s_req[r].tx, s_req[r].mu)
    /\ LET out == VerifierHandle(s_req[r].kind, s_req[r].tx, s_req[r].mu)
       IN  /\ s_req' = [s_req EXCEPT
                 ![r].pc = "responded",
                 ![r].response = IF out.res = "OK" THEN "success" ELSE "closed"]
           /\ v_order' = Append(v_order,
                 [ rid |-> r, res |-> out.res, stage |-> out.stage,
                   advanced |->
                      /\ out.history # v_history
                      /\ out.history.historical_roots[v_history.next_root_index]
                           = s_req[r].mu.new_root ])
    /\ UNCHANGED <<s_state, s_lock, s_poisoned>>

\* the POST of request r does not reach the verifier
ForwardFails(r) ==
    /\ s_req[r].pc = "forward"
    /\ s_req' = [s_req EXCEPT ![r].pc = "responded", ![r].response = "error"]
    /\ UNCHANGED <<s_state, s_lock, s_poisoned, v_order, v_vars>>

\* the POST of request r is answered with a status that is not a success,
\* without the verifier's handler having run
ForwardRejected(r) ==
    /\ s_req[r].pc = "forward"
    /\ s_req' = [s_req EXCEPT ![r].pc = "responded", ![r].response = "failure"]
    /\ UNCHANGED <<s_state, s_lock, s_poisoned, v_order, v_vars>>

ResponseIsSuccessAlways(response) == TRUE

\* send().await.unwrap() gave a response and response.status().is_success()
ResponseIsSuccess(response) == response = "success"

\* the handler resumes after the POST: "OK" on a success status, "FAILED" on
\* another status, a panic of unwrap() when the call gave no response
SeqReturn(r) ==
    /\ s_req[r].pc = "responded"
    /\ s_req' = [s_req EXCEPT
          ![r].pc = "done",
          ![r].result = IF ResponseIsSuccess(s_req[r].response) THEN "OK"
                        ELSE IF s_req[r].response \in {"closed", "error"} THEN "panic"
                        ELSE "FAILED"]
    /\ UNCHANGED <<s_state, s_lock, s_poisoned, v_order, v_vars>>

\* the client of request r drops its connection while the handler is
\* suspended at send().await: the handler's future is dropped there, with the
\* POST not yet sent ("forward") or already answered ("responded")
SeqCancel(r) ==
    /\ s_req[r].pc \in {"forward", "responded"}
    /\ s_req' = [s_req EXCEPT ![r].pc = "done", ![r].result = "cancelled"]
    /\ UNCHANGED <<s_state, s_lock, s_poisoned, v_order, v_vars>>

SequencerInit ==
    /\ s_state = SequencerNew
    /\ s_lock = 0
    /\ s_poisoned = FALSE
    /\ s_req = [r \in 1..MaxRequests |-> NoRequest]
    /\ v_order = <<>>

PipelineNext ==
    \/ \E r \in 1..MaxRequests, kind \in {"onramp", "payment"},
          status \in {"valid", "invalid"} :
          SeqLock(r, kind, status) /\ UNCHANGED <<p_vars, z_vars, c_vars, f_vars, v_vars>>
    \/ \E r \in 1..MaxRequests : SeqCritical(r) /\ UNCHANGED <<p_vars, z_vars, c_vars, f_vars, v_vars>>
    \/ \E r \in 1..MaxRequests : VerifierReceive(r) /\ UNCHANGED <<p_vars, z_vars, c_vars, f_vars>>
    \/ \E r \in 1..MaxRequests : ForwardFails(r) /\ UNCHANGED <<p_vars, z_vars, c_vars, f_vars>>
    \/ \E r \in 1..MaxRequests : ForwardRejected(r) /\ UNCHANGED <<p_vars, z_vars, c_vars, f_vars>>
    \/ \E r \in 1..MaxRequests : SeqReturn(r) /\ UNCHANGED <<p_vars, z_vars, c_vars, f_vars>>
    \/ \E r \in 1..MaxRequests : SeqCancel(r) /\ UNCHANGED <<p_vars, z_vars, c_vars, f_vars>>

\* the sequencer alone, up to the end of the critical section, with requests
\* that carry a new proof or the proof of an earlier request
SequencerNext ==
    \/ \E r \in 1..MaxRequests, kind \in {"onramp", "payment"},
          status \in {"valid", "invalid"} :
          SeqLock(r, kind, status) /\ UNCHANGED <<p_vars, z_vars, c_vars, f_vars, v_vars>>
    \/ \E r, q \in 1..MaxRequests :
          SeqLockResubmit(r, q) /\ UNCHANGED <<p_vars, z_vars, c_vars, f_vars, v_vars>>
    \/ \E r \in 1..MaxRequests : SeqCritical(r) /\ UNCHANGED <<p_vars, z_vars, c_vars, f_vars, v_vars>>

\* the sequencer with its critical section taken statement by statement
SequencerStepsNext ==
    \/ \E r \in 1..MaxRequests, kind \in {"onramp", "payment"},
          status \in {"valid", "invalid"} :
          SeqLock(r, kind, status) /\ UNCHANGED <<p_vars, z_vars, c_vars, f_vars, v_vars>>
    \/ \E r \in 1..MaxRequests : SeqReadIndex(r) /\ UNCHANGED <<p_vars, z_vars, c_vars, f_vars, v_vars>>
    \/ \E r \in 1..MaxRequests : SeqUpdateDb(r) /\ UNCHANGED <<p_vars, z_vars, c_vars, f_vars, v_vars>>
    \/ \E r \in 1..MaxRequests : SeqIncrement(r) /\ UNCHANGED <<p_vars, z_vars, c_vars, f_vars, v_vars>>

\* sequencer and verifier, with requests that carry a new proof or the body
\* of an earlier request, each bundle reaching the verifier
PipelineResubmitNext ==
    \/ \E r \in 1..MaxRequests, kind \in {"onramp", "payment"},
          status \in {"valid", "invalid"} :
          SeqLock(r, kind, status) /\ UNCHANGED <<p_vars, z_vars, c_vars, f_vars, v_vars>>
    \/ \E r, q \in 1..MaxRequests :
          SeqLockResubmit(r, q) /\ UNCHANGED <<p_vars, z_vars, c_vars, f_vars, v_vars>>
    \/ \E r \in 1..MaxRequests : SeqCritical(r) /\ UNCHANGED <<p_vars, z_vars, c_vars, f_vars, v_vars>>
    \/ \E r \in 1..MaxRequests : VerifierReceive(r) /\ UNCHANGED <<p_vars, z_vars, c_vars, f_vars>>

----------------------------------------------------------------------------
(* The proof circuits (userland/src/circuits).  A byte of a constraint     *)
(* system is a term: <<8, v>> is the constant byte v, <<7, key, input, i>> *)
(* is byte i of the PRF output on (key, input), which the PRF gadget       *)
(* constrains to the evaluation.  A field element of the outer scalar      *)
(* field is held as its limbs, least significant first, each limb a        *)
(* little-endian run of bytes.                                             *)

ZeroByte == <<8, 0>>

OneByte == <<8, 1>>

ByteArray(n, b) == [i \in 1..n |-> b]

\* a byte string that differs from the all-zero one in byte i only
UnitBytes(n, i) == [ByteArray(n, ZeroByte) EXCEPT ![i] = OneByte]

FieldElemLen == N_LIMBS * LIMB_BYTES

\* lib_mpc_zexe::utils::bytes_to_field::<ConstraintF, N_LIMBS>: packs the
\* bytes little-endian into the limbs, the bytes past the input are zero
bytes_to_field(bytes) ==
    [l \in 1..N_LIMBS |->
        [j \in 1..LIMB_BYTES |->
            LET i == (l - 1) * LIMB_BYTES + j
            IN  IF i <= Len(bytes) THEN bytes[i] ELSE ZeroByte]]

\* FqVar::to_bytes: all the bytes of the element, little-endian
to_bytes(fe) ==
    [i \in 1..FieldElemLen |->
        fe[((i - 1) \div LIMB_BYTES) + 1][((i - 1) % LIMB_BYTES) + 1]]

\* the field element whose byte i is b and whose other bytes are those of fe
WithByte(fe, i, b) ==
    [fe EXCEPT ![((i - 1) \div LIMB_BYTES) + 1][((i - 1) % LIMB_BYTES) + 1] = b]

\* JZPRFInstance::evaluate, and the output_var the PRF gadget computes
PRF(key, input) == [i \in 1..PRF_LEN |-> <<7, key, input, i>>]

\* a record's KZG commitment and the coordinates of its affine point
RecordCommitment(fields) == <<10, fields>>

AffineX(point) == <<11, point>>

AffineY(point) == <<12, point>>

\* the root the Merkle gadget computes from the proof's leaf and path
ProofRoot(proof) == <<13, proof.leaf, proof.path>>

Prefix(bytes, n) == SubSeq(bytes, 1, n)

----------------------------------------------------------------------------
(* The values the assignments are drawn from. *)

SecretKeys == {ByteArray(PRF_LEN, ZeroByte), UnitBytes(PRF_LEN, 1)}

\* [0u8; 32] and one other input
OwnershipInputs == {ByteArray(PRF_LEN, ZeroByte), UnitBytes(PRF_LEN, PRF_LEN)}

RhoValues == {ByteArray(NoteFieldLen, ZeroByte), UnitBytes(NoteFieldLen, 1)}

OwnerValues ==
    {Prefix(PRF(k, x), NoteFieldLen) : k \in SecretKeys, x \in OwnershipInputs}

AmountValues ==
    {ByteArray(NoteFieldLen, ZeroByte), UnitBytes(NoteFieldLen, 1),
     UnitBytes(NoteFieldLen, NoteFieldLen)}

AssetIdValues == {UnitBytes(NoteFieldLen, 1), UnitBytes(NoteFieldLen, NoteFieldLen)}

JZRecord(entropy, owner, asset_id, amount, rho) ==
    [f \in ENTROPY..RHO |->
        CASE f = ENTROPY -> entropy
          [] f = OWNER -> owner
          [] f = ASSET_ID -> asset_id
          [] f = AMOUNT -> amount
          [] OTHER -> rho]

InputRecords ==
    {JZRecord(ByteArray(NoteFieldLen, ZeroByte), owner, asset_id, amount, rho) :
        owner \in OwnerValues, asset_id \in AssetIdValues,
        amount \in AmountValues, rho \in RhoValues}

\* the output note goes to one recipient, with a fresh rho
OutputRecords ==
    {JZRecord(ByteArray(NoteFieldLen, OneByte), Prefix(PRF(UnitBytes(PRF_LEN, PRF_LEN),
                  ByteArray(PRF_LEN, ZeroByte)), NoteFieldLen),
              asset_id, amount, UnitBytes(NoteFieldLen, NoteFieldLen)) :
        asset_id \in AssetIdValues, amount \in AmountValues}

\* public values: the encodings of byte strings, and the elements that
\* differ from such an encoding in the first byte past the byte string
PublicEncodings(strings, n) ==
    {bytes_to_field(s) : s \in strings}
        \cup {WithByte(bytes_to_field(s), n + 1, OneByte) : s \in strings}

NullifierInputs ==
    PublicEncodings({PRF(k, rho) : k \in SecretKeys, rho \in RhoValues}, PRF_LEN)

OtherPoint == <<10, <<>>>>

OpeningProofs(record) ==
    {[leaf |-> x, path |-> <<>>] : x \in {AffineX(RecordCommitment(record)), AffineX(OtherPoint)}}

----------------------------------------------------------------------------
(* PaymentCircuit::generate_constraints: the bindings 1 to 8 between the   *)
(* gadgets, over an assignment a of the witness and the public inputs.     *)

SameKey(a) ==
    \A i \in 1..Len(a.ownership_key) : a.ownership_key[i] = a.nullifier_key[i]

NullifierInputIsRho(a) ==
    \A i \in 1..Len(a.nullifier_input) :
        a.nullifier_input[i] = a.input_utxo[RHO][i]

OwnerIsPublicKey(a) ==
    \A i \in 1..Len(a.input_utxo[OWNER]) :
        a.input_utxo[OWNER][i] = PRF(a.ownership_key, a.ownership_input)[i]

NullifierBound(a) ==
    LET output_var == PRF(a.nullifier_key, a.nullifier_input)
        nullifier_prf_byte_vars == to_bytes(a.nullifier)
    IN  \A i \in 1..Len(output_var) : output_var[i] = nullifier_prf_byte_vars[i]

OutputCommitmentBound(a) ==
    /\ a.commitment_x = AffineX(RecordCommitment(a.output_utxo))
    /\ a.commitment_y = AffineY(RecordCommitment(a.output_utxo))

LeafIsInputCommitment(a) ==
    a.proof.leaf = AffineX(RecordCommitment(a.input_utxo))

RootBound(a) ==
    /\ a.root_x = AffineX(ProofRoot(a.proof))
    /\ a.root_y = AffineY(ProofRoot(a.proof))

ConservationFirstField(a) ==
    \A field \in {AMOUNT} :
        \A i \in 1..Min(Len(a.input_utxo[field]), Len(a.output_utxo[field])) :
            a.input_utxo[field][i] = a.output_utxo[field][i]

Conservation(a) ==
    \A field \in {AMOUNT, ASSET_ID} :
        \A i \in 1..Min(Len(a.input_utxo[field]), Len(a.output_utxo[field])) :
            a.input_utxo[field][i] = a.output_utxo[field][i]

PaymentSatisfied(a) ==
    /\ SameKey(a)
    /\ NullifierInputIsRho(a)
    /\ OwnerIsPublicKey(a)
    /\ NullifierBound(a)
    /\ OutputCommitmentBound(a)
    /\ LeafIsInputCommitment(a)
    /\ RootBound(a)
    /\ Conservation(a)

PaymentAssignments ==
    [input_utxo : InputRecords, output_utxo : OutputRecords,
     nullifier_key : SecretKeys, nullifier_input : RhoValues,
     ownership_key : SecretKeys, ownership_input : OwnershipInputs,
     nullifier : NullifierInputs]

\* a payment constraint system is built over an assignment and evaluated
PaymentCircuit(a, proof, root, commitment) ==
    LET full == [input_utxo |-> a.input_utxo, output_utxo |-> a.output_utxo,
                 nullifier_key |-> a.nullifier_key,
                 nullifier_input |-> a.nullifier_input,
                 ownership_key |-> a.ownership_key,
                 ownership_input |-> a.ownership_input,
                 proof |-> proof,
                 root_x |-> AffineX(root), root_y |-> AffineY(root),
                 nullifier |-> a.nullifier,
                 commitment_x |-> AffineX(commitment),
                 commitment_y |-> AffineY(commitment)]
    IN  z_last' = [circuit |-> "payment", a |-> full,
                   satisfied |-> PaymentSatisfied(full)]

----------------------------------------------------------------------------
(* OnRampCircuit::generate_constraints. *)

CommitmentBound(a) ==
    /\ a.commitment_x = AffineX(RecordCommitment(a.utxo))
    /\ a.commitment_y = AffineY(RecordCommitment(a.utxo))

AmountBound(a) ==
    LET amount_inputvar_bytes == to_bytes(a.amount)
    IN  \A i \in 1..Min(Len(a.utxo[AMOUNT]), Len(amount_inputvar_bytes)) :
            a.utxo[AMOUNT][i] = amount_inputvar_bytes[i]

AssetIdBound(a) ==
    LET assetid_inputvar_bytes == to_bytes(a.asset_id)
    IN  \A i \in 1..Min(Len(a.utxo[ASSET_ID]), Len(assetid_inputvar_bytes)) :
            a.utxo[ASSET_ID][i] = assetid_inputvar_bytes[i]

OnRampSatisfied(a) ==
    /\ CommitmentBound(a)
    /\ AmountBound(a)
    /\ AssetIdBound(a)

OnRampRecords ==
    {JZRecord(ByteArray(NoteFieldLen, ZeroByte), owner, asset_id, amount,
              ByteArray(NoteFieldLen, ZeroByte)) :
        owner \in OwnerValues, asset_id \in AssetIdValues, amount \in AmountValues}

OnRampCircuit(utxo, asset_id, amount, commitment) ==
    LET full == [utxo |-> utxo, asset_id |-> asset_id, amount |-> amount,
                 commitment_x |-> AffineX(commitment),
                 commitment_y |-> AffineY(commitment)]
    IN  z_last' = [circuit |-> "onramp", a |-> full,
                   satisfied |-> OnRampSatisfied(full)]

----------------------------------------------------------------------------
(* MerkleUpdateCircuit::generate_constraints.  An opening proof holds the  *)
(* record at a leaf and its path: the position of the leaf and the         *)
(* siblings on the way to the root.                                        *)

DummyRecord ==
    JZRecord(ByteArray(NoteFieldLen, ZeroByte), ByteArray(NoteFieldLen, ZeroByte),
             ByteArray(NoteFieldLen, ZeroByte), ByteArray(NoteFieldLen, ZeroByte),
             ByteArray(NoteFieldLen, ZeroByte))

UpdateLeaves == {RecordCommitment(DummyRecord), OtherPoint}

LeafPositions == 0..(Pow2(MERKLE_TREE_LEVELS) - 1)

AuthPaths == {<<AffineX(p)>> : p \in UpdateLeaves}

UpdateProofs ==
    [leaf : UpdateLeaves,
     path : [position : LeafPositions, auth_path : AuthPaths]]

\* to_uncompressed_bytes!(leaf_index): the bytes of the usize, little-endian
IndexBytes(k) == [i \in 1..LIMB_BYTES |-> <<8, (k \div (256 ^ (i - 1))) % 256>>]

LeafIndexInputs == {bytes_to_field(IndexBytes(k)) : k \in LeafPositions}

PathEquality(a) == a.old_merkle_proof.path = a.new_merkle_proof.path

\* enforce_fqvar_equality: both operands are elements of the same field, so
\* min(e1_bytes.len(), e2_bytes.len()) covers every byte
FqVarEquality(e1, e2) == e1 = e2

OldRootBound(a) ==
    /\ FqVarEquality(a.old_root_x, AffineX(ProofRoot(a.old_merkle_proof)))
    /\ FqVarEquality(a.old_root_y, AffineY(ProofRoot(a.old_merkle_proof)))

NewRootBound(a) ==
    /\ FqVarEquality(a.new_root_x, AffineX(ProofRoot(a.new_merkle_proof)))
    /\ FqVarEquality(a.new_root_y, AffineY(ProofRoot(a.new_merkle_proof)))

\* the bytes of leaf_value_x against the first bytes of the leaf, whose
\* serialization starts with the x coordinate
LeafValueBound(a) == a.leaf_value_x = AffineX(a.new_merkle_proof.leaf)

\* _leaf_index_inputvar and _leaf_value_y_inputvar are allocated and enter
\* no constraint
MerkleUpdateSatisfied(a) ==
    /\ PathEquality(a)
    /\ OldRootBound(a)
    /\ NewRootBound(a)
    /\ LeafValueBound(a)

MerkleUpdateCircuit(old_merkle_proof, new_merkle_proof, leaf_index, leaf_value, leaf_value_y, old_root, new_root) ==
    LET full == [old_merkle_proof |-> old_merkle_proof,
                 new_merkle_proof |-> new_merkle_proof,
                 leaf_index |-> leaf_index,
                 leaf_value_x |-> AffineX(leaf_value),
                 leaf_value_y |-> AffineY(leaf_value_y),
                 old_root_x |-> AffineX(old_root), old_root_y |-> AffineY(old_root),
                 new_root_x |-> AffineX(new_root), new_root_y |-> AffineY(new_root)]
    IN  z_last' = [circuit |-> "merkle_update", a |-> full,
                   satisfied |-> MerkleUpdateSatisfied(full)]

----------------------------------------------------------------------------
(* generate_groth_proof of the three circuits: the circuit is built from   *)
(* the caller's values, generate_constraints allocates its input           *)
(* variables from them, and the function returns the public-input vector   *)
(* it arranges itself.                                                     *)

OnrampGrothPublicInput ==
    [ASSET_ID |-> 0, AMOUNT |-> 1, COMMITMENT_X |-> 2, COMMITMENT_Y |-> 3]

PaymentGrothPublicInput ==
    [ROOT_X |-> 0, ROOT_Y |-> 1, NULLIFIER |-> 2, COMMITMENT_X |-> 3,
     COMMITMENT_Y |-> 4]

MerkleUpdateGrothPublicInput ==
    [LEAF_INDEX |-> 0, LEAF_VALUE_X |-> 1, LEAF_VALUE_Y |-> 2, OLD_ROOT_X |-> 3,
     OLD_ROOT_Y |-> 4, NEW_ROOT_X |-> 5, NEW_ROOT_Y |-> 6]

\* the fields x and y of a point in projective coordinates: the affine
\* coordinates when the representation is normal (z = 1), other values when
\* it is not
ProjectiveX(point, normal) == IF normal THEN AffineX(point) ELSE <<14, point>>

ProjectiveY(point, normal) == IF normal THEN AffineY(point) ELSE <<15, point>>

\* the values the closures of OnRampCircuit::generate_constraints assign
OnRampWitness(utxo) ==
    [utxo |-> utxo,
     asset_id |-> bytes_to_field(utxo[ASSET_ID]),
     amount |-> bytes_to_field(utxo[AMOUNT]),
     commitment_x |-> AffineX(RecordCommitment(utxo)),
     commitment_y |-> AffineY(RecordCommitment(utxo))]

\* the input variables in the order of their new_input calls
OnRampInstance(a) == <<a.asset_id, a.amount, a.commitment_x, a.commitment_y>>

OnRampGenerateGrothProof(unspent_coin, normal) ==
    LET a == OnRampWitness(unspent_coin)
        asset_id == bytes_to_field(unspent_coin[ASSET_ID])
        amount == bytes_to_field(unspent_coin[AMOUNT])
        public_inputs ==
            <<asset_id, amount,
              ProjectiveX(RecordCommitment(unspent_coin), normal),
              ProjectiveY(RecordCommitment(unspent_coin), normal)>>
    IN  z_last' = [circuit |-> "onramp_proof", a |-> a,
                   satisfied |-> OnRampSatisfied(a),
                   instance |-> OnRampInstance(a),
                   public_inputs |-> public_inputs]

\* the values the closures of PaymentCircuit::generate_constraints assign
PaymentWitness(input_utxo, output_utxo, proof, root, sk) ==
    [input_utxo |-> input_utxo, output_utxo |-> output_utxo,
     nullifier_key |-> sk, nullifier_input |-> input_utxo[RHO],
     ownership_key |-> sk, ownership_input |-> ByteArray(PRF_LEN, ZeroByte),
     proof |-> proof,
     root_x |-> AffineX(root), root_y |-> AffineY(root),
     nullifier |-> bytes_to_field(PRF(sk, input_utxo[RHO])),
     commitment_x |-> AffineX(RecordCommitment(output_utxo)),
     commitment_y |-> AffineY(RecordCommitment(output_utxo))]

PaymentInstance(a) ==
    <<a.root_x, a.root_y, a.nullifier, a.commitment_x, a.commitment_y>>

PaymentGenerateGrothProof(input_utxo, output_utxo, proof, root, sk) ==
    LET a == PaymentWitness(input_utxo, output_utxo, proof, root, sk)
        nullifier == bytes_to_field(PRF(sk, input_utxo[RHO]))
        public_inputs ==
            <<AffineX(root), AffineY(root), nullifier,
              AffineX(RecordCommitment(output_utxo)),
              AffineY(RecordCommitment(output_utxo))>>
    IN  z_last' = [circuit |-> "payment_proof", a |-> a,
                   satisfied |-> PaymentSatisfied(a),
                   instance |-> PaymentInstance(a),
                   public_inputs |-> public_inputs]

\* the values the closures of MerkleUpdateCircuit::generate_constraints assign
MerkleUpdateWitness(old_merkle_proof, old_root, new_merkle_proof, new_root, leaf_index) ==
    [old_merkle_proof |-> old_merkle_proof,
     new_merkle_proof |-> new_merkle_proof,
     leaf_index |-> bytes_to_field(IndexBytes(leaf_index)),
     leaf_value_x |-> AffineX(new_merkle_proof.leaf),
     leaf_value_y |-> AffineY(new_merkle_proof.leaf),
     old_root_x |-> AffineX(old_root), old_root_y |-> AffineY(old_root),
     new_root_x |-> AffineX(new_root), new_root_y |-> AffineY(new_root)]

MerkleUpdateInstance(a) ==
    <<a.leaf_index, a.leaf_value_x, a.leaf_value_y, a.old_root_x, a.old_root_y,
      a.new_root_x, a.new_root_y>>

MerkleUpdateGenerateGrothProof(old_merkle_proof, old_root, new_merkle_proof, new_root, leaf_index) ==
    LET a == MerkleUpdateWitness(old_merkle_proof, old_root, new_merkle_proof,
                                 new_root, leaf_index)
        public_inputs ==
            <<bytes_to_field(IndexBytes(leaf_index)),
              AffineX(new_merkle_proof.leaf), AffineY(new_merkle_proof.leaf),
              AffineX(old_root), AffineY(old_root),
              AffineX(new_root), AffineY(new_root)>>
    IN  z_last' = [circuit |-> "merkle_update_proof", a |-> a,
                   satisfied |-> MerkleUpdateSatisfied(a),
                   instance |-> MerkleUpdateInstance(a),
                   public_inputs |-> public_inputs]

CircuitsInit == z_last = [circuit |-> "none"]

\* a constraint system is built over one assignment and evaluated once; the
\* systems share no state, so a behaviour evaluates one of them
CircuitsNext ==
    \/ /\ z_last.circuit = "none"
       /\ \E a \in PaymentAssignments :
             \E proof \in OpeningProofs(a.input_utxo) :
                \E root \in {ProofRoot(proof), OtherPoint},
                   commitment \in {RecordCommitment(a.output_utxo), OtherPoint} :
                   PaymentCircuit(a, proof, root, commitment)
       /\ UNCHANGED <<p_vars, c_vars, f_vars, v_vars, s_vars>>
    \/ /\ z_last.circuit = "none"
       /\ \E utxo \in OnRampRecords :
             \E asset_id \in PublicEncodings(AssetIdValues, NoteFieldLen),
                amount \in PublicEncodings(AmountValues, NoteFieldLen),
                commitment \in {RecordCommitment(utxo), OtherPoint} :
                OnRampCircuit(utxo, asset_id, amount, commitment)
       /\ UNCHANGED <<p_vars, c_vars, f_vars, v_vars, s_vars>>
    \/ /\ z_last.circuit = "none"
       /\ \E old_merkle_proof, new_merkle_proof \in UpdateProofs :
             \E leaf_index \in LeafIndexInputs,
                leaf_value, leaf_value_y \in UpdateLeaves,
                old_root \in {ProofRoot(old_merkle_proof), OtherPoint},
                new_root \in {ProofRoot(new_merkle_proof), OtherPoint} :
                MerkleUpdateCircuit(old_merkle_proof, new_merkle_proof, leaf_index,
                                    leaf_value, leaf_value_y, old_root, new_root)
       /\ UNCHANGED <<p_vars, c_vars, f_vars, v_vars, s_vars>>
    \/ /\ z_last.circuit = "none"
       /\ \E unspent_coin \in OnRampRecords, normal \in BOOLEAN :
             OnRampGenerateGrothProof(unspent_coin, normal)
       /\ UNCHANGED <<p_vars, c_vars, f_vars, v_vars, s_vars>>
    \/ /\ z_last.circuit = "none"
       /\ \E input_utxo \in InputRecords, output_utxo \in OutputRecords,
             sk \in SecretKeys :
             \E proof \in OpeningProofs(input_utxo) :
                \E root \in {ProofRoot(proof), OtherPoint} :
                   PaymentGenerateGrothProof(input_utxo, output_utxo, proof, root, sk)
       /\ UNCHANGED <<p_vars, c_vars, f_vars, v_vars, s_vars>>
    \/ /\ z_last.circuit = "none"
       /\ \E old_merkle_proof, new_merkle_proof \in UpdateProofs,
             leaf_index \in LeafPositions :
             \E old_root \in {ProofRoot(old_merkle_proof), OtherPoint},
                new_root \in {ProofRoot(new_merkle_proof), OtherPoint} :
                MerkleUpdateGenerateGrothProof(old_merkle_proof, old_root,
                                               new_merkle_proof, new_root, leaf_index)
       /\ UNCHANGED <<p_vars, c_vars, f_vars, v_vars, s_vars>>

----------------------------------------------------------------------------
(* The wire codec (userland/src/circuits/protocol.rs).  A value is         *)
(* serialized to bytes (0..255) and the bytes are written in base 58; a    *)
(* base-58 string is held as the sequence of its digits' positions in the  *)
(* alphabet, so the character '1' is the digit 0.                          *)

\* digits, least significant first in base `base`, times mul plus carry
RECURSIVE BaseMulAdd(_, _, _, _)
BaseMulAdd(digits, mul, base, carry) ==
    IF digits = <<>>
    THEN IF carry = 0 THEN <<>>
         ELSE <<carry % base>> \o BaseMulAdd(<<>>, mul, base, carry \div base)
    ELSE LET v == Head(digits) * mul + carry
         IN  <<v % base>> \o BaseMulAdd(Tail(digits), mul, base, v \div base)

\* the number written by input, most significant first in base from, as
\* digits in base to, least significant first
RECURSIVE BaseConvert(_, _, _, _)
BaseConvert(input, acc, from, to) ==
    IF input = <<>> THEN acc
    ELSE BaseConvert(Tail(input), BaseMulAdd(acc, from, to, Head(input)), from, to)

RECURSIVE LeadingZeros(_)
LeadingZeros(seq) ==
    IF seq = <<>> \/ Head(seq) # 0 THEN 0 ELSE 1 + LeadingZeros(Tail(seq))

Reverse(seq) == [i \in 1..Len(seq) |-> seq[Len(seq) + 1 - i]]

\* bs58::encode(buffer).into_string(): a '1' for every leading zero byte,
\* then the number the rest writes
Bs58Encode(buffer) ==
    LET z == LeadingZeros(buffer)
    IN  [i \in 1..z |-> 0]
            \o Reverse(BaseConvert(SubSeq(buffer, z + 1, Len(buffer)), <<>>, 256, 58))

\* a decoder that takes the string for a number and loses the leading zeros
Bs58DecodeNumber(str) ==
    LET z == LeadingZeros(str)
    IN  Reverse(BaseConvert(SubSeq(str, z + 1, Len(str)), <<>>, 58, 256))

\* bs58::decode(str).into_vec().unwrap(): a zero byte for every leading '1',
\* then the bytes of the number the rest writes
Bs58Decode(str) ==
    LET z == LeadingZeros(str)
    IN  [i \in 1..z |-> 0]
            \o Reverse(BaseConvert(SubSeq(str, z + 1, Len(str)), <<>>, 58, 256))

\* ConstraintF::serialize_compressed: the element's bytes, little-endian
SerializeField(e) == [i \in 1..CodecBytes |-> (e \div (256 ^ (i - 1))) % 256]

RECURSIVE LittleEndianValue(_)
LittleEndianValue(buf) ==
    IF buf = <<>> THEN 0 ELSE Head(buf) + 256 * LittleEndianValue(Tail(buf))

\* ConstraintF::deserialize_compressed(..) is Ok when the buffer holds the
\* bytes of one element
FieldDeserializes(buf) == Len(buf) = CodecBytes

\* ConstraintF::deserialize_compressed(..).unwrap()
DeserializeField(buf) == LittleEndianValue(buf)

\* Proof::serialize_compressed: the points a, b, c one after the other
SerializeProof(proof) ==
    SerializeField(proof.a) \o SerializeField(proof.b) \o SerializeField(proof.c)

\* Proof::deserialize_compressed(..) is Ok when the buffer holds three points
ProofDeserializes(buf) == Len(buf) = 3 * CodecBytes

\* Proof::deserialize_compressed(..).unwrap()
DeserializeProof(buf) ==
    [a |-> LittleEndianValue(SubSeq(buf, 1, CodecBytes)),
     b |-> LittleEndianValue(SubSeq(buf, CodecBytes + 1, 2 * CodecBytes)),
     c |-> LittleEndianValue(SubSeq(buf, 2 * CodecBytes + 1, 3 * CodecBytes))]

\* Vec<u8>::serialize_compressed: the length, then the bytes
SerializeVec(v) == <<Len(v)>> \o v

\* Vec<u8>::deserialize_compressed(..) is Ok when the buffer holds a length
\* and that many bytes
VecDeserializes(buf) == buf # <<>> /\ Len(buf) = 1 + buf[1]

\* Vec<u8>::deserialize_compressed(..).unwrap()
DeserializeVec(buf) == SubSeq(buf, 2, Len(buf))

encode_constraintf_as_bs58_str(value) == Bs58Encode(SerializeField(value))

decode_bs58_str_as_constraintf(msg) == DeserializeField(Bs58Decode(msg))

groth_proof_to_bs58(proof, public_inputs) ==
    [proof |-> Bs58Encode(SerializeProof(proof)),
     public_inputs |-> [i \in 1..Len(public_inputs) |->
                           encode_constraintf_as_bs58_str(public_inputs[i])]]

groth_proof_from_bs58(proof) ==
    [proof |-> DeserializeProof(Bs58Decode(proof.proof)),
     public_inputs |-> [i \in 1..Len(proof.public_inputs) |->
                           decode_bs58_str_as_constraintf(proof.public_inputs[i])]]

\* one of the unwraps of groth_proof_from_bs58 panics
groth_proof_from_bs58_panics(proof) ==
    \/ ~ProofDeserializes(Bs58Decode(proof.proof))
    \/ \E i \in 1..Len(proof.public_inputs) :
          ~FieldDeserializes(Bs58Decode(proof.public_inputs[i]))

sha2_vector_commitment_opening_proof_to_bs58(proof) ==
    [path_leaf_sibling_hash |-> Bs58Encode(SerializeVec(proof.path.leaf_sibling_hash)),
     path_auth_path |-> [i \in 1..Len(proof.path.auth_path) |->
                            Bs58Encode(SerializeVec(proof.path.auth_path[i]))],
     path_leaf_index |-> proof.path.leaf_index,
     record |-> Bs58Encode(SerializeVec(proof.record)),
     root |-> Bs58Encode(SerializeVec(proof.root))]

sha2_vector_commitment_opening_proof_from_bs58(proof) ==
    [path |-> [leaf_sibling_hash |-> DeserializeVec(Bs58Decode(proof.path_leaf_sibling_hash)),
               auth_path |-> [i \in 1..Len(proof.path_auth_path) |->
                                 DeserializeVec(Bs58Decode(proof.path_auth_path[i]))],
               leaf_index |-> proof.path_leaf_index],
     record |-> DeserializeVec(Bs58Decode(proof.record)),
     root |-> DeserializeVec(Bs58Decode(proof.root))]

\* one of the unwraps of sha2_vector_commitment_opening_proof_from_bs58 panics
sha2_vector_commitment_opening_proof_from_bs58_panics(proof) ==
    \/ ~VecDeserializes(Bs58Decode(proof.path_leaf_sibling_hash))
    \/ \E i \in 1..Len(proof.path_auth_path) :
          ~VecDeserializes(Bs58Decode(proof.path_auth_path[i]))
    \/ ~VecDeserializes(Bs58Decode(proof.record))
    \/ ~VecDeserializes(Bs58Decode(proof.root))

\* the values the codec is run on
FieldSamples == {0, 1, 58, 255, 256, (256 ^ CodecBytes) - 1}

ProofSamples == [a : {0, 256}, b : {1, 255}, c : {0, 58, (256 ^ CodecBytes) - 1}]

SeqsUpTo(S, n) == UNION {[1..k -> S] : k \in 0..n}

DigestSamples == {<<0, 0>>, <<0, 1>>, <<255, 0>>}

OpeningSamples ==
    [path : [leaf_sibling_hash : DigestSamples,
             auth_path : SeqsUpTo(DigestSamples, MaxPublicInputs),
             leaf_index : 0..(Pow2(MERKLE_TREE_LEVELS) - 1)],
     record : DigestSamples, root : DigestSamples]

\* a sender encodes a value
GrothProofToBs58(proof, public_inputs) ==
    p_last' = [op |-> "groth_proof_to_bs58",
               arg |-> [proof |-> proof, public_inputs |-> public_inputs],
               res |-> groth_proof_to_bs58(proof, public_inputs)]

\* the receiver decodes what the sender encoded
GrothProofFromBs58 ==
    /\ p_last.op = "groth_proof_to_bs58"
    /\ p_last' = [op |-> "groth_proof_from_bs58", arg |-> p_last.res,
                  panicked |-> groth_proof_from_bs58_panics(p_last.res),
                  res |-> IF groth_proof_from_bs58_panics(p_last.res) THEN "panic"
                          ELSE groth_proof_from_bs58(p_last.res),
                  sent |-> p_last.arg]

OpeningProofToBs58(proof) ==
    p_last' = [op |-> "opening_proof_to_bs58", arg |-> proof,
               res |-> sha2_vector_commitment_opening_proof_to_bs58(proof)]

OpeningProofFromBs58 ==
    /\ p_last.op = "opening_proof_to_bs58"
    /\ p_last' = [op |-> "opening_proof_from_bs58", arg |-> p_last.res,
                  panicked |-> sha2_vector_commitment_opening_proof_from_bs58_panics(p_last.res),
                  res |-> IF sha2_vector_commitment_opening_proof_from_bs58_panics(p_last.res)
                          THEN "panic"
                          ELSE sha2_vector_commitment_opening_proof_from_bs58(p_last.res),
                  sent |-> p_last.arg]

ProtocolInit == p_last = [op |-> "none"]

\* the codec calls share no state: a behaviour encodes one value and
\* decodes the result
ProtocolNext ==
    \/ /\ p_last.op = "none"
       /\ \E proof \in ProofSamples,
             public_inputs \in SeqsUpTo(FieldSamples, MaxPublicInputs) :
             GrothProofToBs58(proof, public_inputs)
       /\ UNCHANGED <<z_vars, c_vars, f_vars, v_vars, s_vars>>
    \/ GrothProofFromBs58 /\ UNCHANGED <<z_vars, c_vars, f_vars, v_vars, s_vars>>
    \/ /\ p_last.op = "none"
       /\ \E proof \in OpeningSamples : OpeningProofToBs58(proof)
       /\ UNCHANGED <<z_vars, c_vars, f_vars, v_vars, s_vars>>
    \/ OpeningProofFromBs58 /\ UNCHANGED <<z_vars, c_vars, f_vars, v_vars, s_vars>>

----------------------------------------------------------------------------
(* Specifications: each runs one component, the others stay as constructed. *)

Init ==
    /\ ContractInit
    /\ FrontierInit
    /\ VerifierInit
    /\ SequencerInit
    /\ CircuitsInit
    /\ ProtocolInit

SpecContract == Init /\ [][ContractNext]_vars

SpecPayment == Init /\ [][PaymentNext]_vars

SpecFrontier == Init /\ [][FrontierNext]_vars

SpecVerifier == Init /\ [][VerifierNext]_vars

SpecPipeline == Init /\ [][PipelineNext]_vars

SpecSequencer == Init /\ [][SequencerNext]_vars

SpecSequencerSteps == Init /\ [][SequencerStepsNext]_vars

SpecPipelineResubmit == Init /\ [][PipelineResubmitNext]_vars

SpecCircuits == Init /\ [][CircuitsNext]_vars

SpecProtocol == Init /\ [][ProtocolNext]_vars

\* The two root histories, each in behaviours of its own: the verifier's
\* MerkleRootHistory and the frontier tree are separate objects that share
\* no state, so a behaviour steps one of them and leaves the other as
\* constructed.
RootHistoriesNext ==
    \/ (f_last.op = "new" /\ VerifierOnrampRequest) /\ UNCHANGED <<p_vars, z_vars, c_vars, f_vars, s_vars>>
    \/ (f_last.op = "new" /\ VerifierPaymentRequest) /\ UNCHANGED <<p_vars, z_vars, c_vars, f_vars, s_vars>>
    \/ \E leaf \in LeafValues :
          (v_last.kind = "none" /\ FrontierInsert(leaf))
             /\ UNCHANGED <<p_vars, z_vars, c_vars, v_vars, s_vars>>

SpecRootHistories == Init /\ [][RootHistoriesNext]_vars

\* the leaves inserted when both trees run side by side: the empty leaf
\* [0; 32] and the leaf [1; 32]
TreeLeaves == { Bytes32(0), Bytes32(1) }

\* the two frontier trees, the contract's and the sequencer's, each taking
\* inserts
TreesNext ==
    \/ Initialize /\ UNCHANGED <<p_vars, z_vars, f_vars, v_vars, s_vars>>
    \/ \E leaf \in TreeLeaves :
          Insert(Sha256(leaf)) /\ UNCHANGED <<p_vars, z_vars, f_vars, v_vars, s_vars>>
    \/ \E leaf \in TreeLeaves :
          FrontierInsert(leaf) /\ UNCHANGED <<p_vars, z_vars, c_vars, v_vars, s_vars>>

SpecTrees == Init /\ [][TreesNext]_vars

----------------------------------------------------------------------------
(* The full Merkle tree over a leaf vector: the reference the frontier     *)
(* computation is compared with.  Node(level, pos) is the hash of the      *)
(* subtree of height level whose leftmost leaf is pos * 2^level.           *)

RECURSIVE FullNode(_, _, _, _)
FullNode(leafnodes, empty, level, pos) ==
    IF level = 0
    THEN IF pos < Len(leafnodes) THEN leafnodes[pos + 1] ELSE empty
    ELSE sha256hash(FullNode(leafnodes, empty, level - 1, 2 * pos),
                    FullNode(leafnodes, empty, level - 1, 2 * pos + 1))

FullRoot(leafnodes, empty, depth) == FullNode(leafnodes, empty, depth, 0)

ContractLatestRoot == storage[KRoots(storage[KCurrentRootIndex])]

----------------------------------------------------------------------------
(* Claims about the contract *)

\* C1: on an initialized contract, record_nullifier of a nullifier that an
\* earlier successful call recorded returns DuplicateNullifier and leaves the
\* whole storage (nullifier set, filled subtrees, root ring, NextIndex,
\* CurrentRootIndex) as it was.
C1_DuplicateNullifierRejected ==
    (/\ c_last.op = "record_nullifier"
     /\ IsInitialized(c_last.pre)
     /\ c_last.arg \in c_last.pre_nfs)
    => (/\ c_last.res = "DuplicateNullifier"
        /\ storage = c_last.pre
        /\ c_nfs = c_last.pre_nfs)

C1_Witness ==
    /\ c_last.op = "record_nullifier"
    /\ c_last.arg \in c_last.pre_nfs
    /\ c_last.res = "DuplicateNullifier"
    /\ Len(c_leaves) > 0

\* C11: initialize on an initialized contract returns IllegalContractCall and
\* leaves the whole storage as it was, after any inserts and recorded
\* nullifiers.
C11_ReinitializeRejected ==
    (c_last.op = "initialize" /\ IsInitialized(c_last.pre))
    => (/\ c_last.res = "IllegalContractCall"
        /\ ErrorCode(c_last.res) = 2
        /\ storage = c_last.pre
        /\ c_nfs = c_last.pre_nfs)

C11_Witness ==
    /\ c_last.op = "initialize"
    /\ c_last.res = "IllegalContractCall"
    /\ Len(c_leaves) >= 2
    /\ c_nfs # {}

\* C12: on a contract that was not initialized, insert and record_nullifier
\* return the error of code 1 and write nothing to storage.
C12_UninitializedRejected ==
    (c_last.op \in {"insert", "record_nullifier"} /\ ~IsInitialized(c_last.pre))
    => (/\ ErrorCode(c_last.res) = 1
        /\ storage = c_last.pre
        /\ c_leaves = <<>>
        /\ c_nfs = {})

C12_Witness ==
    /\ c_last.op = "record_nullifier"
    /\ ~IsInitialized(c_last.pre)
    /\ c_last.res = "ContractUnititialized"
    /\ storage = <<>>

NullifierSet(st) == { k \in DOMAIN st : k[1] = "Nullifier" }

\* C14: on an initialized contract the number of entries of the nullifier
\* set is the number of calls recording a nullifier (record_nullifier, the
\* nullifier step of payment) that returned Ok, and every nullifier such a
\* call recorded is still in the set.
C14_NullifierCount ==
    IsInitialized(storage)
    => (/\ Cardinality(NullifierSet(storage)) = c_accepted
        /\ \A nf \in c_nfs : Has(storage, KNullifier(nf)))

C14_Witness ==
    /\ c_accepted = 2
    /\ c_last.op = "record_nullifier"
    /\ c_last.res = "DuplicateNullifier"
    /\ Len(c_leaves) >= 2

\* C5: after k+1 successful inserts (k+1 <= 2^levels) the root stored at
\* Roots(CurrentRootIndex) is the root of the full tree over the inserted
\* leaves, the other leaves being the empty value zeros(0).
C5_RootIsFullTreeRoot ==
    (/\ IsInitialized(storage)
     /\ Len(c_leaves) >= 1
     /\ Len(c_leaves) <= Pow2(MERKLE_TREE_LEVELS))
    => ContractLatestRoot = FullRoot(c_leaves, zeros(0), MERKLE_TREE_LEVELS)

\* C10: insert on a full tree (NextIndex = 2^levels) fails and changes no storage.
C10_InsertOnFullTreeFails ==
    (/\ c_last.op = "insert"
     /\ IsInitialized(c_last.pre)
     /\ c_last.pre[KNextIndex] = Pow2(MERKLE_TREE_LEVELS))
    => (/\ c_last.res # "Ok"
        /\ storage = c_last.pre)

----------------------------------------------------------------------------
(* Claims about the frontier tree *)

LeafHashes(leaves) == [i \in 1..Len(leaves) |-> compute_leaf_hash(leaves[i])]

\* C4: after n inserts (1 <= n <= 2^levels) get_latest_root() is the root of
\* the full tree of depth levels whose leaves 0..n-1 are the leaf hashes of
\* the inserted values and whose other leaves are zeros(0).
C4_FrontierRootIsFullTreeRoot ==
    (Len(f_leaves) >= 1 /\ Len(f_leaves) <= Pow2(tree.levels))
    => FrontierLatestRoot(tree)
         = FullRoot(LeafHashes(f_leaves), f_zeros(0), tree.levels)

C4_Witness ==
    /\ Len(f_leaves) = Pow2(tree.levels)
    /\ \E i, j \in 1..Len(f_leaves) : f_leaves[i] # f_leaves[j]
    /\ f_leaves[1] # Bytes32(0)
    /\ FrontierLatestRoot(tree)
         = FullRoot(LeafHashes(f_leaves), f_zeros(0), tree.levels)

\* C15 as stated: after n inserts the root history holds min(n, H) roots, in
\* the verifier's MerkleRootHistory and in the ring of the frontier tree.
C15_RootCountIsInserts ==
    /\ Cardinality(DOMAIN v_history.historical_roots)
         = Min(v_acc.count, v_history.root_history_size)
    /\ Cardinality(DOMAIN tree.historical_roots)
         = Min(tree.next_index, tree.root_history_size)

\* C15 as amended: after n inserts the verifier's MerkleRootHistory holds
\* min(n, H) roots; the ring of the frontier tree holds min(n + 1, H), the
\* root that new() stores at index 0 included.
C15_RootCountCapped ==
    /\ Cardinality(DOMAIN v_history.historical_roots)
         = Min(v_acc.count, v_history.root_history_size)
    /\ Cardinality(DOMAIN tree.historical_roots)
         = Min(tree.next_index + 1, tree.root_history_size)

C15_Witness ==
    /\ tree.next_index > tree.root_history_size
    /\ Cardinality(DOMAIN tree.historical_roots) = tree.root_history_size
    /\ f_last.res = "Ok"

\* C16: is_known_root(r) returns normally in every reachable state, true
\* when r is one of the stored roots and false otherwise.
C16_IsKnownRootTotal ==
    f_last.op = "is_known_root"
    => f_last.res = (IF f_last.arg \in FrontierStoredRoots(f_last.pre)
                     THEN "true" ELSE "false")

----------------------------------------------------------------------------
(* Claims about the verifier *)

\* root is one of the roots the history stores: root = R[j] for some j
StoredRoot(h, root) ==
    \E j \in DOMAIN h.historical_roots : h.historical_roots[j] = root

\* C2: once a Merkle update has been accepted, a bundle is accepted only if
\* its old_root is the new_root of the most recently accepted bundle, after
\* any number of accepted updates.
C2_RootRatchet ==
    (v_last.res = "OK" /\ v_last.pre_acc.count >= 1)
    => v_last.pre_acc.latest = <<v_last.old_root>>

\* C3: a payment bundle is accepted only if its declared root is one of the
\* roots stored in the history at the time of the request, and a payment whose
\* root is not stored is rejected before its proof is looked at and before
\* the history is touched.
C3_PaymentRootIsKnown ==
    v_last.kind = "payment"
    => /\ v_last.res = "OK" => StoredRoot(v_last.pre, v_last.root)
       /\ ~StoredRoot(v_last.pre, v_last.root)
          => /\ v_last.res = "panic"
             /\ v_last.stage \in {"lock", "overflow", "known_root"}
             /\ v_history = v_last.pre

C3_Witness ==
    /\ v_last.kind = "payment"
    /\ v_last.res = "OK"
    /\ StoredRoot(v_last.pre, v_last.root)
    /\ v_last.pre_acc.latest # <<v_last.root>>

\* C8: a rejected request leaves the root history (stored roots and
\* next_root_index) as it was; an accepted one inserts exactly one root, the
\* bundle's new_root, at the next index.
C8_RejectionLeavesHistory ==
    /\ v_last.res = "panic" => v_history = v_last.pre
    /\ v_last.res = "OK"
       => /\ v_history.historical_roots[v_last.pre.next_root_index] = v_last.new_root
          /\ \A k \in DOMAIN v_history.historical_roots :
                k # v_last.pre.next_root_index
                => /\ k \in DOMAIN v_last.pre.historical_roots
                   /\ v_history.historical_roots[k] = v_last.pre.historical_roots[k]

C8_Witness ==
    /\ v_last.res = "panic"
    /\ v_last.stage = "mu_verify"
    /\ v_last.pre_acc.count >= 1
    /\ v_last.pre_acc.latest = <<v_last.old_root>>
    /\ v_history = v_last.pre

\* a request that passes every check of the verifier against the history
ValidRequest(l) ==
    /\ l.kind \in {"onramp", "payment"}
    /\ l.tx_status = "valid"
    /\ l.mu_status = "valid"
    /\ l.kind = "payment" => StoredRoot(l.pre, l.root)
    /\ l.pre_acc.count = 0 \/ l.pre_acc.latest = <<l.old_root>>

\* C9: a failure inside the critical section is confined to its request: the
\* lock is available again and a later valid request is accepted.  (The
\* requests made at next_root_index = 0, where the index arithmetic itself
\* fails, are left out.)
C9_FailureIsConfined ==
    (ValidRequest(v_last) /\ v_last.pre.next_root_index > 0)
    => v_last.res = "OK"

\* every refusal of a valid request is a refusal of lock() on the poisoned mutex
C9_OnlyPoisonRefuses ==
    (ValidRequest(v_last) /\ v_last.pre.next_root_index > 0 /\ v_last.res # "OK")
    => (v_last.pre_poisoned /\ v_last.stage = "lock")

----------------------------------------------------------------------------
(* Claims about the sequencer-verifier pipeline *)

\* the requests whose coin the sequencer added to its state
Accepted == { r \in 1..MaxRequests : s_req[r].pc \in {"forward", "responded", "done"}
                                      /\ s_req[r].mu # VOID }

\* the leaves of the db that hold the commitment com
LeavesOf(com) == { i \in 1..Len(s_state.db) : s_state.db[i] = com }

\* C17: the commitment of every request the sequencer accepted is in the
\* tree exactly once, also when an accepted proof is submitted again, and it
\* stays at the leaf where its request wrote it.
C17_CommitmentEntersOnce ==
    \A r \in Accepted :
        /\ Cardinality(LeavesOf(s_req[r].tx.commitment)) = 1
        /\ s_state.db[s_req[r].mu.leaf_index + 1] = s_req[r].tx.commitment

\* C6: the bundles of concurrently handled requests reach the verifier in
\* the order in which the sequencer took its lock for them (the order of the
\* request numbers), and none is rejected by the root-chain check.
C6_AppliedInLockOrder ==
    /\ \A i, j \in 1..Len(v_order) : i < j => v_order[i].rid < v_order[j].rid
    /\ \A i \in 1..Len(v_order) : v_order[i].stage # "root_chain"

\* C7: a sequencer handler returns "OK" only if the verifier accepted the
\* bundle it forwarded, advancing the root history by the bundle's new_root.
C7_OkOnlyIfVerifierAccepted ==
    \A r \in 1..MaxRequests :
        s_req[r].result = "OK"
        => \E i \in 1..Len(v_order) :
              /\ v_order[i].rid = r
              /\ v_order[i].res = "OK"
              /\ v_order[i].advanced

C7_Witness ==
    \E r \in 1..MaxRequests :
        /\ s_req[r].result = "OK"
        /\ \E q \in 1..MaxRequests : q # r /\ s_req[q].response = "closed"


----------------------------------------------------------------------------
(* Claims on the proof circuits *)

\* C18: every assignment that satisfies the Payment circuit has input and
\* output notes whose asset_id fields are byte-identical and whose amount
\* fields are byte-identical.
C18_Conservation ==
    (z_last.circuit = "payment" /\ z_last.satisfied)
        => /\ z_last.a.input_utxo[ASSET_ID] = z_last.a.output_utxo[ASSET_ID]
           /\ z_last.a.input_utxo[AMOUNT] = z_last.a.output_utxo[AMOUNT]

\* a satisfied payment whose amount is not zero, among assignments where the
\* same constraint system is left unsatisfied by a different output amount
C18_Witness ==
    /\ z_last.circuit = "payment"
    /\ z_last.satisfied
    /\ z_last.a.input_utxo[AMOUNT] = UnitBytes(NoteFieldLen, NoteFieldLen)
    /\ z_last.a.input_utxo[ASSET_ID] = UnitBytes(NoteFieldLen, NoteFieldLen)
    /\ \E other \in AmountValues :
          ~PaymentSatisfied([z_last.a EXCEPT !.output_utxo[AMOUNT] = other])

\* C19: in every satisfying assignment of the OnRamp circuit the public
\* inputs asset_id and amount are, as field elements, the encodings of the
\* note's asset_id and amount fields.
C19_PublicInputsAreNoteFields ==
    (z_last.circuit = "onramp" /\ z_last.satisfied)
        => /\ z_last.a.asset_id = bytes_to_field(z_last.a.utxo[ASSET_ID])
           /\ z_last.a.amount = bytes_to_field(z_last.a.utxo[AMOUNT])

\* C20: for a fixed input note and secret key exactly one value of the
\* public nullifier input satisfies the Payment circuit: no satisfied
\* assignment stays satisfied when its nullifier input is replaced by
\* another value.
C20_NullifierUnique ==
    (z_last.circuit = "payment" /\ z_last.satisfied)
        => \A nf \in NullifierInputs :
              PaymentSatisfied([z_last.a EXCEPT !.nullifier = nf])
                 => nf = z_last.a.nullifier


\* C21: a MerkleUpdate statement (leaf_index = k, leaf_value, old_root,
\* new_root) is satisfiable only if the opening path it rests on is the path
\* of position k and the leaf it opens under new_root is leaf_value.
C21_LeafIndexIsPathPosition ==
    (z_last.circuit = "merkle_update" /\ z_last.satisfied)
        => /\ z_last.a.leaf_index
                = bytes_to_field(IndexBytes(z_last.a.new_merkle_proof.path.position))
           /\ z_last.a.leaf_value_x = AffineX(z_last.a.new_merkle_proof.leaf)
           /\ z_last.a.leaf_value_y = AffineY(z_last.a.new_merkle_proof.leaf)


\* the value of the public-input vector at a position of an enum
At(public_inputs, position) == public_inputs[position + 1]

----------------------------------------------------------------------------
(* Claims on the sequencer's forward to the verifier *)

\* the requests whose forward to the verifier failed: no response, a closed
\* connection, or a status that is not a success
ForwardFailed(r) == s_req[r].response \in {"error", "closed", "failure"}

\* C23: a request whose forward to the verifier failed returns "FAILED" to
\* the client, after one forward only, and the coin its critical section
\* added stays in the db with num_coins advanced.
C23_ForwardFailureReturnsFailed ==
    \A r \in 1..MaxRequests :
        (s_req[r].pc = "done" /\ ForwardFailed(r))
            => /\ s_req[r].result = "FAILED"
               /\ s_state.num_coins > s_req[r].mu.leaf_index
               /\ s_state.db[s_req[r].mu.leaf_index + 1] = s_req[r].mu.leaf_value


\* no request is between lock() and its end
Quiescent == \A r \in 1..MaxRequests : s_req[r].pc \in {"none", "done"}

\* C24: when every request has either returned "OK" or been cancelled by
\* its client at the suspension point, and none is in flight, the root of
\* the sequencer's db is the latest root of the verifier's history.
C24_CancelKeepsRootsAgreed ==
    ( /\ Quiescent
      /\ s_state.num_coins > 0
      /\ \A r \in 1..MaxRequests :
            s_req[r].pc = "done" => s_req[r].result \in {"OK", "cancelled"} )
        => v_acc.latest = <<DbCommitment(s_state.db)>>


\* C25: the sequencer's state lock is held by a request exactly from its
\* lock() to the end of its critical section (proof verification, tree
\* update, Merkle-update proof); no request holds it while its POST to the
\* verifier is under way or afterwards.
C25_LockNotHeldDuringForward ==
    \A r \in 1..MaxRequests :
        /\ s_req[r].pc = "locked" => s_lock = r
        /\ s_req[r].pc \in {"forward", "responded", "done"} => s_lock # r

\* one request awaits its POST with its coin already in the db while
\* another request holds the lock
C25_Witness ==
    \E r, q \in 1..MaxRequests :
        /\ s_req[r].pc = "forward"
        /\ s_state.db[s_req[r].mu.leaf_index + 1] = s_req[r].tx.commitment
        /\ s_req[q].pc = "locked"
        /\ s_lock = q


----------------------------------------------------------------------------
(* Claims on the wire codec *)

\* C26: groth_proof_from_bs58 of groth_proof_to_bs58(proof, public_inputs)
\* is the same proof and the same public-input vector, of the same length
\* and in the same order; sha2_vector_commitment_opening_proof_from_bs58 of
\* the encoding of an opening is the same opening.
C26_CodecRoundTrip ==
    /\ p_last.op = "groth_proof_from_bs58"
          => /\ ~p_last.panicked
             /\ p_last.res.proof = p_last.sent.proof
             /\ Len(p_last.res.public_inputs) = Len(p_last.sent.public_inputs)
             /\ \A i \in 1..Len(p_last.sent.public_inputs) :
                   p_last.res.public_inputs[i] = p_last.sent.public_inputs[i]
    /\ p_last.op = "opening_proof_from_bs58"
          => ~p_last.panicked /\ p_last.res = p_last.sent

\* a proof and two distinct public inputs, one of which serializes with a
\* leading zero byte, came back from the codec
C26_Witness ==
    /\ p_last.op = "groth_proof_from_bs58"
    /\ Len(p_last.sent.public_inputs) = MaxPublicInputs
    /\ p_last.sent.public_inputs[1] = 256
    /\ p_last.sent.public_inputs[2] = 58
    /\ p_last.arg.public_inputs[1] # p_last.arg.public_inputs[2]
    /\ ~p_last.panicked
    /\ p_last.res.proof.a = 256


----------------------------------------------------------------------------
(* Claims on chained payments *)

\* the step is a call of payment that continues a chain: its nullifier is
\* not recorded, and it declares the empty-tree root right after initialize
\* or the root the accepted payment right before it returned
ChainedPaymentStep ==
    /\ c_last'.op = "payment"
    /\ c_last' # c_last
    /\ c_last'.arg.nf \notin c_nfs
    /\ \/ /\ c_last.op = "initialize" /\ c_last.res = "Ok"
          /\ c_last'.arg.root = zeros(MERKLE_TREE_LEVELS - 1)
       \/ /\ c_last.op = "payment" /\ c_last.res = "Ok"
          /\ c_last'.arg.root = c_last.ret

\* C27: on an initialized contract a payment with a fresh nullifier that
\* declares the empty-tree root Z[L-1] as the first call after initialize,
\* or the root returned by the accepted payment before it, is accepted: the
\* root a payment produces is at once a known root for the next payment.
C27_ChainedPaymentsAccepted ==
    [][ChainedPaymentStep => c_last'.res = "Ok"]_vars

\* the second payment of a chain was accepted on the root the first returned
C27_Witness ==
    /\ c_last.op = "payment"
    /\ c_last.res = "Ok"
    /\ Len(c_leaves) = 2
    /\ c_last.arg.root # zeros(MERKLE_TREE_LEVELS - 1)
    /\ c_last.arg.root = c_last.pre[KRoots(c_last.pre[KCurrentRootIndex])]
    /\ c_last.ret = storage[KRoots(storage[KCurrentRootIndex])]


----------------------------------------------------------------------------
(* Claims on add_coin_to_state *)

\* the number of calls of add_coin_to_state made before that of request r
CallIndex(r) == Cardinality({ q \in Accepted : q < r })

\* the records after the calls of the requests up to r, rebuilt from the
\* requests: call i put its commitment at leaf i
RecordsAfter(r) ==
    [ k \in 1..Pow2(MERKLE_TREE_LEVELS) |->
        IF \E q \in Accepted : q <= r /\ CallIndex(q) = k - 1
        THEN s_req[CHOOSE q \in Accepted : q <= r /\ CallIndex(q) = k - 1].tx.commitment
        ELSE DummyCommitment ]

\* C28: the i-th call of add_coin_to_state (i = 0, 1, 2, ...) writes leaf
\* index i and emits the Merkle-update public inputs leaf_index = i,
\* leaf_value = the inserted commitment, old_root = the db commitment before
\* the update, new_root = the db commitment after it; so old_root of call
\* i+1 is new_root of call i.
C28_AddCoinCallsChain ==
    \A r \in Accepted :
        /\ s_req[r].mu.leaf_index = CallIndex(r)
        /\ s_state.db[CallIndex(r) + 1] = s_req[r].tx.commitment
        /\ s_req[r].mu.leaf_value = s_req[r].tx.commitment
        /\ s_req[r].mu.old_root = Root(RecordsAfter(r - 1))
        /\ s_req[r].mu.new_root = Root(RecordsAfter(r))
        /\ \A q \in Accepted :
              CallIndex(q) = CallIndex(r) + 1
                 => s_req[q].mu.old_root = s_req[r].mu.new_root

\* three calls were made, the last one with the commitment of the first,
\* and every call changed the root
C28_Witness ==
    /\ Accepted = {1, 2, 3}
    /\ s_req[3].tx.commitment = s_req[1].tx.commitment
    /\ s_req[3].mu.leaf_index = 2
    /\ s_req[2].mu.old_root = s_req[1].mu.new_root
    /\ s_req[3].mu.old_root = s_req[2].mu.new_root
    /\ \A r \in Accepted : s_req[r].mu.old_root # s_req[r].mu.new_root
    /\ s_state.num_coins = 3



----------------------------------------------------------------------------
(* Claims on the ascending computation of the contract's insert *)

\* the running hash of the ascending computation at level i, for the leaf
\* inserted at next_index into the storage st: at a level where the running
\* index is even left = h, right = Z[i], at an odd one left = S[i], right = h
RECURSIVE RunningHash(_, _, _, _)
RunningHash(st, next_index, leaf, i) ==
    IF i = 0 THEN leaf
    ELSE LET h == RunningHash(st, next_index, leaf, i - 1)
             idx == next_index \div Pow2(i - 1)
         IN  IF idx % 2 = 0
             THEN sha256hash(h, zeros(i - 1))
             ELSE sha256hash(st[KFilledSubtree(i - 1)], h)

\* C29: the contract's insert follows the ascending computation: the root it
\* stores is the running hash after the last level, and at every level i
\* where the running index is even it memoises the running hash, so that
\* FilledSubtree(i) holds the hash of the left subtree just filled.
C29_InsertMemoisesRunningHash ==
    (c_last.op = "insert" /\ c_last.res = "Ok")
    => LET next_index == c_last.pre[KNextIndex]
       IN  /\ storage[KRoots(storage[KCurrentRootIndex])]
                 = RunningHash(c_last.pre, next_index, c_last.arg, MERKLE_TREE_LEVELS)
           /\ \A i \in 0..(MERKLE_TREE_LEVELS - 1) :
                 (next_index \div Pow2(i)) % 2 = 0
                    => storage[KFilledSubtree(i)]
                          = RunningHash(c_last.pre, next_index, c_last.arg, i)


----------------------------------------------------------------------------
(* Claims on the verifier's MerkleRootHistory *)

\* C30: after any number n of inserts is_known_root(r) returns true exactly
\* when r is one of the roots the history stores (those of the last
\* min(n, H) inserts) and false otherwise, and get_latest_root returns the
\* root inserted last when n >= 1 and None when n = 0.
C30_KnownRootIsStoredRoot ==
    /\ \A root \in RootValues :
          IsKnownRootResult(v_history, root)
             = (IF StoredRoot(v_history, root) THEN "true" ELSE "false")
    /\ GetLatestRootResult(v_history)
          = [res |-> "returned", value |-> v_acc.latest]
    /\ v_acc.latest = <<>> <=> v_acc.count = 0


----------------------------------------------------------------------------
(* Claims on construction *)

\* C31: a successful initialize of the contract, and new of the frontier
\* tree, establish S[i] = Z[i] for every level i in [0, L), R[0] = Z[L-1],
\* current root index 0 and next leaf index 0; the contract sets the
\* initialized flag with its last write, after all other entries.
C31_InitializeEstablishesEmptyTree ==
    /\ (c_last.op = "initialize" /\ c_last.res = "Ok")
          => /\ \A i \in 0..(MERKLE_TREE_LEVELS - 1) :
                   storage[KFilledSubtree(i)] = zeros(i)
             /\ storage[KRoots(0)] = zeros(MERKLE_TREE_LEVELS - 1)
             /\ storage[KCurrentRootIndex] = 0
             /\ storage[KNextIndex] = 0
             /\ storage[KInitialized] = TRUE
             /\ storage = ApplyWrites(c_last.pre, c_last.writes)
             /\ \A k \in 1..Len(c_last.writes) :
                   c_last.writes[k][1] = KInitialized <=> k = Len(c_last.writes)
    /\ f_last.op = "new"
          => /\ DOMAIN tree.filled_subtrees = 0..(tree.levels - 1)
             /\ \A i \in 0..(tree.levels - 1) : tree.filled_subtrees[i] = f_zeros(i)
             /\ DOMAIN tree.historical_roots = {0}
             /\ tree.historical_roots[0] = f_zeros(tree.levels - 1)
             /\ tree.current_root_index = 0
             /\ tree.next_index = 0

\* initialize has just succeeded on a fresh contract, next to a new tree
C31_Witness ==
    /\ c_last.op = "initialize"
    /\ c_last.res = "Ok"
    /\ c_last.pre = <<>>
    /\ Len(c_last.writes) = MERKLE_TREE_LEVELS + 4
    /\ f_last.op = "new"


\* C32: the frontier tree never holds more than 2^levels leaves, and insert
\* called on a full tree (next_index = 2^levels) fails before it modifies
\* filled_subtrees, historical_roots, current_root_index or next_index.
C32_FullTreeRefusesInsert ==
    /\ tree.next_index <= Pow2(tree.levels)
    /\ Len(f_leaves) = tree.next_index
    /\ (f_last.op = "insert" /\ f_last.pre.next_index = Pow2(f_last.pre.levels))
          => (f_last.res = "panic" /\ tree = f_last.pre)

\* insert was called on a full tree
C32_Witness ==
    /\ f_last.op = "insert"
    /\ f_last.pre.next_index = Pow2(f_last.pre.levels)
    /\ f_last.res = "panic"
    /\ tree.next_index = Pow2(tree.levels)


----------------------------------------------------------------------------
(* Claims on the keys of the payment circuit *)

\* both PRF instances use one key, over its whole length
C33_OneKey ==
    (z_last.circuit = "payment" /\ z_last.satisfied)
    => z_last.a.ownership_key = z_last.a.nullifier_key

\* the nullifier PRF's input is the input note's rho, over its whole length
C33_InputIsRho ==
    (z_last.circuit = "payment" /\ z_last.satisfied)
    => z_last.a.nullifier_input = z_last.a.input_utxo[RHO]

\* the input note's owner is PRF_sk(0^32), over the whole length of the field
C33_OwnerIsKeyOfZero ==
    (z_last.circuit = "payment" /\ z_last.satisfied)
    => \A i \in 1..Len(z_last.a.input_utxo[OWNER]) :
          z_last.a.input_utxo[OWNER][i]
             = PRF(z_last.a.ownership_key, ByteArray(PRF_LEN, ZeroByte))[i]

\* the public nullifier is PRF_sk(rho)
C33_NullifierIsKeyOfRho ==
    (z_last.circuit = "payment" /\ z_last.satisfied)
    => z_last.a.nullifier
          = bytes_to_field(PRF(z_last.a.ownership_key, z_last.a.input_utxo[RHO]))

\* C33: every witness satisfying the Payment circuit uses one secret key sk
\* for both PRF instances, with input.owner = PRF_sk(0^32) and public
\* nf = PRF_sk(input.rho): the keys are equal, the nullifier PRF's input is
\* the input note's rho and the ownership PRF's output is the input note's
\* owner field, byte for byte.
C33_OneSecretKey ==
    /\ C33_OneKey
    /\ C33_InputIsRho
    /\ C33_OwnerIsKeyOfZero
    /\ C33_NullifierIsKeyOfRho


----------------------------------------------------------------------------
(* Claims on the sequencer's leaf indices *)

\* the requests that have written their leaf
Written == { r \in 1..MaxRequests :
                s_req[r].pc \in {"updated", "forward", "responded", "done"}
                /\ s_req[r].mu # VOID }

\* the leaves of the db that hold a coin
CoinLeaves == { k \in 1..Len(s_state.db) : s_state.db[k] # DummyCommitment }

\* C34: under any interleaving of requests each request that reaches the
\* tree update has a leaf index of its own, the indices handed out are
\* 0, 1, 2, ... without gaps, and num_coins is the number of leaves written
\* (between db.update and the increment, under the lock, it is one behind).
C34_LeafIndicesDistinct ==
    /\ \A r, q \in Written : r # q => s_req[r].mu.leaf_index # s_req[q].mu.leaf_index
    /\ { s_req[r].mu.leaf_index : r \in Written } = 0..(Cardinality(Written) - 1)
    /\ CoinLeaves = 1..Cardinality(Written)
    /\ \A r \in Written : s_state.db[s_req[r].mu.leaf_index + 1] = s_req[r].tx.commitment
    /\ s_state.num_coins
          = Cardinality({ r \in Written : s_req[r].pc # "updated" })
    /\ s_lock = 0 => s_state.num_coins = Cardinality(CoinLeaves)

\* three requests of both kinds have written the leaves 0, 1 and 2
C34_Witness ==
    /\ Cardinality(Written) = 3
    /\ s_state.num_coins = 3
    /\ \E r, q \in Written : s_req[r].kind = "onramp" /\ s_req[q].kind = "payment"
    /\ s_lock = 0

----------------------------------------------------------------------------
(* Claims on the bundles the pipeline accepts *)

\* the requests whose bundle the verifier answered with "OK"
VerifierAccepted == { r \in 1..MaxRequests :
                         \E i \in 1..Len(v_order) :
                            v_order[i].rid = r /\ v_order[i].res = "OK" }

\* payments q and r carry the same body, hence the same NULLIFIER public
\* input (public_inputs[PaymentGrothPublicInput::NULLIFIER] of the proof)
SameNullifier(q, r) ==
    /\ s_req[q].kind = "payment"
    /\ s_req[r].kind = "payment"
    /\ s_req[q].tx = s_req[r].tx

\* C35: the pipeline never accepts two payments with the same nullifier:
\* once sequencer and verifier have accepted a payment, a later payment with
\* the same NULLIFIER public input is not accepted by the verifier and
\* writes no leaf at the sequencer.
C35_NoDoubleSpend ==
    \A q, r \in 1..MaxRequests :
        (q < r /\ SameNullifier(q, r) /\ q \in VerifierAccepted)
            => /\ r \notin VerifierAccepted
               /\ s_req[r].mu = VOID

\* C36: for every bundle the verifier accepts, the leaf its Merkle-update
\* proof inserts (LEAF_VALUE) is the output commitment (COMMITMENT) of the
\* on-ramp or payment proof of the same bundle.
C36_LeafIsCommitment ==
    v_last.res = "OK" => v_last.leaf_value = v_last.commitment

----------------------------------------------------------------------------
(* Frame conditions of the contract *)

\* the keys at which the storages st and pre differ
ChangedKeys(pre, st) ==
    { k \in (DOMAIN pre) \cup (DOMAIN st) :
         ~(k \in DOMAIN pre /\ k \in DOMAIN st /\ pre[k] = st[k]) }

\* the keys insert may write, given the storage it starts from
InsertFrame(pre) ==
    { KFilledSubtree(i) : i \in 0..(MERKLE_TREE_LEVELS - 1) }
        \cup { KRoots((pre[KCurrentRootIndex] + 1) % ROOT_HISTORY_SIZE),
               KCurrentRootIndex, KNextIndex }

\* C37: insert leaves the nullifier set and the initialized flag unchanged
\* and writes only FilledSubtree entries, Roots(new root index),
\* CurrentRootIndex and NextIndex; record_nullifier leaves the tree entries
\* unchanged and adds exactly the one nullifier key; a call that returns an
\* error writes nothing.
C37_FrameConditions ==
    /\ (c_last.op = "insert" /\ c_last.res = "Ok")
          => /\ ChangedKeys(c_last.pre, storage) \subseteq InsertFrame(c_last.pre)
             /\ NullifierSet(storage) = NullifierSet(c_last.pre)
             /\ c_nfs = c_last.pre_nfs
             /\ IsInitialized(storage) = IsInitialized(c_last.pre)
    /\ (c_last.op = "record_nullifier" /\ c_last.res = "Ok")
          => /\ ChangedKeys(c_last.pre, storage) = {KNullifier(c_last.arg)}
             /\ ~Has(c_last.pre, KNullifier(c_last.arg))
             /\ Has(storage, KNullifier(c_last.arg))
             /\ c_nfs = c_last.pre_nfs \cup {c_last.arg}
    /\ (c_last.op \in {"insert", "record_nullifier"} /\ c_last.res # "Ok")
          => storage = c_last.pre

\* an insert on a tree that holds leaves, with a nullifier recorded, the
\* ring having wrapped around
C37_Witness ==
    /\ c_last.op = "insert"
    /\ c_last.res = "Ok"
    /\ c_last.pre[KNextIndex] >= ROOT_HISTORY_SIZE
    /\ NullifierSet(c_last.pre) # {}
    /\ c_last.pre[KCurrentRootIndex] = 0

----------------------------------------------------------------------------
(* Claims on the root ring of the frontier trees *)

\* the root of the tree of depth `depth` without leaves, as the level loop
\* of insert hashes: every leaf node is the empty value `empty`
EmptyTreeRoot(empty, depth) == FullRoot(<<>>, empty, depth)

\* the initial root of the sequencer's frontier tree is the empty-tree root
C38_FrontierInitialRoot ==
    tree.next_index = 0
    => tree.historical_roots[tree.current_root_index] = EmptyTreeRoot(f_zeros(0), tree.levels)

\* the initial root of the contract's tree is the empty-tree root
C38_ContractInitialRoot ==
    (IsInitialized(storage) /\ storage[KNextIndex] = 0)
    => ContractLatestRoot = EmptyTreeRoot(zeros(0), MERKLE_TREE_LEVELS)

\* C38: the root that initialize / new record at R[0] is the root of the
\* empty tree of depth L as insert computes roots (L levels of hashing over
\* leaf nodes that are all Z[0]), so that the frontier root is the full-tree
\* root also before the first insert.
C38_InitialRootIsEmptyTreeRoot ==
    /\ C38_FrontierInitialRoot
    /\ C38_ContractInitialRoot

\* the ring and the indices of the sequencer's frontier tree
C39_FrontierRing ==
    /\ tree.current_root_index < tree.root_history_size
    /\ Has(tree.historical_roots, tree.current_root_index)
    /\ \A i \in 0..(tree.levels - 1) : Has(tree.filled_subtrees, i)
    /\ (f_last.op = "insert" /\ f_last.res = "Ok")
          => LET pre == f_last.pre
                 j == (pre.current_root_index + 1) % pre.root_history_size
             IN  /\ tree.current_root_index = j
                 /\ tree.next_index = pre.next_index + 1
                 /\ DOMAIN tree.historical_roots = DOMAIN pre.historical_roots \cup {j}
                 /\ \A i \in DOMAIN pre.historical_roots :
                        i # j => tree.historical_roots[i] = pre.historical_roots[i]
                 /\ FrontierLatestRoot(tree)
                       = FrontierLoop(pre.levels, pre.filled_subtrees, 0, pre.next_index,
                                      compute_leaf_hash(f_last.arg)).hash

\* the ring keys of a contract storage
RootKeys(st) == { k \in DOMAIN st : k[1] = "Roots" }

\* the ring and the indices of the contract's tree, once initialized
C39_ContractRing ==
    /\ IsInitialized(storage)
          => /\ storage[KCurrentRootIndex] < ROOT_HISTORY_SIZE
             /\ Has(storage, KRoots(storage[KCurrentRootIndex]))
             /\ \A i \in 0..(MERKLE_TREE_LEVELS - 1) : Has(storage, KFilledSubtree(i))
    /\ (c_last.op = "insert" /\ c_last.res = "Ok")
          => LET pre == c_last.pre
                 j == (pre[KCurrentRootIndex] + 1) % ROOT_HISTORY_SIZE
             IN  /\ storage[KCurrentRootIndex] = j
                 /\ storage[KNextIndex] = pre[KNextIndex] + 1
                 /\ RootKeys(storage) = RootKeys(pre) \cup {KRoots(j)}
                 /\ \A k \in RootKeys(pre) : k # KRoots(j) => storage[k] = pre[k]
                 /\ ContractLatestRoot
                       = InsertLoop(pre, 0, pre[KNextIndex], c_last.arg).hash

\* C39: in every reachable state of a frontier tree (the sequencer's and
\* the contract's) the current root index is below H and a root is stored
\* at it, and every level has a filled-subtree entry; a successful insert
\* advances the current root index by 1 modulo H and the next leaf index by
\* 1, overwrites only the ring slot at the new index, and leaves there the
\* root it computed.
C39_RingAndIndexInvariants ==
    /\ C39_FrontierRing
    /\ C39_ContractRing

\* both trees have just taken an insert that wrapped their ring around to
\* slot 0, overwriting the initial root
C39_Witness ==
    /\ f_last.op = "insert" /\ f_last.res = "Ok"
    /\ f_last.pre.current_root_index = ROOT_HISTORY_SIZE - 1
    /\ tree.current_root_index = 0
    /\ tree.historical_roots[0] # f_last.pre.historical_roots[0]
    /\ c_last.op = "insert" /\ c_last.res = "Ok"
    /\ c_last.pre[KCurrentRootIndex] = ROOT_HISTORY_SIZE - 1
    /\ storage[KCurrentRootIndex] = 0
    /\ storage[KRoots(0)] # c_last.pre[KRoots(0)]

============================================================================
